---- MODULE Spec2Model ----
(***************************************************************************)
(* Building_Waste: the zonal cooling allocator and the temperature-bin     *)
(* classifier of src/core/analysis.py, as operators over small tables,     *)
(* applied by the actions of a state machine whose initial states draw     *)
(* the input tables.                                                       *)
(*                                                                         *)
(* Numbers.  A cell of a table is an exact rational [n, d] with d > 0, or  *)
(* NaN, written [n |-> 0, d |-> 0].  The code computes in IEEE doubles;    *)
(* the model computes the same expressions without rounding.               *)
(* Time.  A timestamp is an integer count of half hours, so that samples   *)
(* can fall between the points of the hourly axis the allocator builds.    *)
(***************************************************************************)
EXTENDS Integers, FiniteSets, Sequences, TLC

VARIABLES pc, called, dat, iat, airflow, zmap, cooling, hsp, csp, zonal, binned, grouped

\* the calls a caller has made in a row, each with its arguments and result
VARIABLES log

\* the ranked tables of zones a pipeline builds from the zonal table
VARIABLES top_wasteful, top_demanding

\* the what-if simulation of a pipeline: its further inputs and its results
VARIABLES simulation

\* concurrent invocations of the core: each one's position, arguments and
\* result, and the frames holding the local variables
VARIABLES invocation, frames

\* the module state of the preloaded callbacks, the local variables of the
\* callbacks that are executing, and the record of the fetches made
VARIABLES LOADING_QUEUE, LOADING_IN_PROGRESS, CURRENTLY_LOADING, CURRENT_USER_BUILDING,
          building_cache, background, foreground, fetched

loaderVars == <<LOADING_QUEUE, LOADING_IN_PROGRESS, CURRENTLY_LOADING, CURRENT_USER_BUILDING,
                building_cache, background, foreground, fetched>>

\* the state of a run of the core functions, of a caller and of a ranking
runVars == <<pc, called, dat, iat, airflow, zmap, cooling, hsp, csp, zonal, binned, grouped,
            log, top_wasteful, top_demanding, simulation>>

\* the state outside a single run of the core functions
otherVars == <<log, top_wasteful, top_demanding, simulation, invocation, frames, loaderVars>>

vars == <<pc, called, dat, iat, airflow, zmap, cooling, hsp, csp, zonal, binned, grouped,
          otherVars>>

-----------------------------------------------------------------------------
(* Cells: float64 values and NaN *)

NaN == [n |-> 0, d |-> 0]

Num(k) == [n |-> k, d |-> 1]

IsNaN(x) == x.d = 0

RECURSIVE GCD(_, _)
GCD(a, b) == IF b = 0 THEN a ELSE GCD(b, a % b)

\* the rational n/d (d > 0) in lowest terms
Rat(n, d) ==
    LET g == GCD(IF n < 0 THEN -n ELSE n, d)
    IN  [n |-> n \div g, d |-> d \div g]

\* a - b; NaN if either operand is NaN
Sub(a, b) ==
    IF IsNaN(a) \/ IsNaN(b) THEN NaN
    ELSE Rat(a.n * b.d - b.n * a.d, a.d * b.d)

Add(a, b) ==
    IF IsNaN(a) \/ IsNaN(b) THEN NaN
    ELSE Rat(a.n * b.d + b.n * a.d, a.d * b.d)

Mul(a, b) ==
    IF IsNaN(a) \/ IsNaN(b) THEN NaN
    ELSE Rat(a.n * b.n, a.d * b.d)

\* a / b for b # 0 (the allocator replaces a zero divisor by NaN first)
Div(a, b) ==
    IF IsNaN(a) \/ IsNaN(b) \/ b.n = 0 THEN NaN
    ELSE IF b.n > 0 THEN Rat(a.n * b.d, a.d * b.n)
    ELSE Rat(-(a.n * b.d), a.d * (-b.n))

\* comparisons with NaN are False
Lt(a, b) == ~IsNaN(a) /\ ~IsNaN(b) /\ a.n * b.d < b.n * a.d

Ge(a, b) == ~IsNaN(a) /\ ~IsNaN(b) /\ a.n * b.d >= b.n * a.d

\* x != 0, elementwise (NaN != 0 is True)
NotZero(x) == IsNaN(x) \/ x.n # 0

\* faulty variant: the clip is left out
ClipNone(x) == x

\* Series.clip / DataFrame.clip(lower=0) on one cell: NaN stays NaN
ClipLower0(x) == IF IsNaN(x) THEN NaN ELSE IF x.n < 0 THEN Num(0) ELSE x

\* sum with skipna=True over the cells f[c], c \in S; an empty sum is 0
RECURSIVE SumSkipNa(_, _)
SumSkipNa(f, S) ==
    IF S = {} THEN Num(0)
    ELSE LET c == CHOOSE x \in S : TRUE
             rest == SumSkipNa(f, S \ {c})
         IN  IF IsNaN(f[c]) THEN rest ELSE Add(f[c], rest)

-----------------------------------------------------------------------------
(* Tables: pandas DataFrame / Series, None, and a raised ValueError *)

None == [kind |-> "None"]

ValueError == [kind |-> "ValueError"]

IsNone(x) == x.kind = "None"

IsFrame(x) == x.kind = "DataFrame"

\* a DataFrame: row labels (timestamps), column labels, cells
DF(index, columns, val) ==
    [kind |-> "DataFrame", index |-> index, columns |-> columns, val |-> val]

\* DataFrame.empty / Series.empty: some axis has length 0
Empty(df) == df.index = {} \/ df.columns = {}

\* the zone -> AHU map: columns present, and one row per ZoneID
MapDF(columns, zones, ahuOf) ==
    [kind |-> "DataFrame", index |-> zones, columns |-> columns, AHUID |-> ahuOf]

SetMax(S) == CHOOSE x \in S : \A y \in S : y <= x

SetMin(S) == CHOOSE x \in S : \A y \in S : x <= y

\* df.reindex(index=..., columns=...): labels not in df give NaN cells
Reindex(df, index, columns) ==
    DF(index, columns,
       [t \in index |-> [c \in columns |->
            IF t \in df.index /\ c \in df.columns THEN df.val[t][c] ELSE NaN]])

\* df.ffill(): a NaN cell takes the last valid value above it in its column
FFill(df) ==
    DF(df.index, df.columns,
       [t \in df.index |-> [c \in df.columns |->
            LET prev == {u \in df.index : u <= t /\ ~IsNaN(df.val[u][c])}
            IN  IF prev = {} THEN NaN ELSE df.val[SetMax(prev)][c]]])

\* df.bfill(): a NaN cell takes the next valid value below it in its column
BFill(df) ==
    DF(df.index, df.columns,
       [t \in df.index |-> [c \in df.columns |->
            LET next == {u \in df.index : u >= t /\ ~IsNaN(df.val[u][c])}
            IN  IF next = {} THEN NaN ELSE df.val[SetMin(next)][c]]])

-----------------------------------------------------------------------------
(* get_cooling_zonal_from_data *)

\* freq="H": the axis step, in half hours
HourStep == 2

\* faulty variant: the building cooling is checked for None but not for .empty
AllocatorMissingInputCoolingNoneOnly(ahu_dat_df, iat_df, airflow_df, map_df, cooling_project_series) ==
    \/ IsNone(ahu_dat_df) \/ Empty(ahu_dat_df)
    \/ IsNone(iat_df) \/ Empty(iat_df)
    \/ IsNone(airflow_df) \/ Empty(airflow_df)
    \/ IsNone(map_df) \/ Empty(map_df)
    \/ IsNone(cooling_project_series)

\* the five "is None or .empty" checks, in the code's order
AllocatorMissingInput(ahu_dat_df, iat_df, airflow_df, map_df, cooling_project_series) ==
    \/ IsNone(ahu_dat_df) \/ Empty(ahu_dat_df)
    \/ IsNone(iat_df) \/ Empty(iat_df)
    \/ IsNone(airflow_df) \/ Empty(airflow_df)
    \/ IsNone(map_df) \/ Empty(map_df)
    \/ IsNone(cooling_project_series) \/ Empty(cooling_project_series)

\* faulty variant: only the ZoneID column is required
MapSchemaZoneIDOnly(map_df) == "ZoneID" \in map_df.columns

\* {"ZoneID", "AHUID"}.issubset(map_df.columns)
MapSchemaOK(map_df) == {"ZoneID", "AHUID"} \subseteq map_df.columns

\* faulty variant: the union of the input indices is used as the axis
CommonIndexUnion(ahu_dat_df, iat_df, airflow_df, cooling_project_series) ==
    ahu_dat_df.index \cup iat_df.index
        \cup airflow_df.index \cup cooling_project_series.index

\* pd.date_range(start=all_indices.min(), end=all_indices.max(), freq="H")
CommonIndex(ahu_dat_df, iat_df, airflow_df, cooling_project_series) ==
    LET all_indices == ahu_dat_df.index \cup iat_df.index
                         \cup airflow_df.index \cup cooling_project_series.index
        lo == SetMin(all_indices)
        hi == SetMax(all_indices)
    IN  {t \in lo..hi : (t - lo) % HourStep = 0}

\* faulty variant: the backward fill is applied before the forward fill
AlignBackFill(df, common_index) == FFill(BFill(Reindex(df, common_index, df.columns)))

\* df.reindex(common_index).ffill().bfill()
AlignFill(df, common_index) == BFill(FFill(Reindex(df, common_index, df.columns)))

\* map_df.index.intersection(iat_df.columns).intersection(airflow_df.columns)
ValidZones(map_df, iat_df, airflow_df) ==
    (map_df.index \cap iat_df.columns) \cap airflow_df.columns

\* faulty variant: a zone whose AHU is no column of the AHU table is given the
\* discharge temperature 0
DatVavZeroFill(ahu_dat, map_df, valid_zones) ==
    DF(ahu_dat.index, valid_zones,
       [t \in ahu_dat.index |-> [z \in valid_zones |->
            IF map_df.AHUID[z] \in ahu_dat.columns
            THEN ahu_dat.val[t][map_df.AHUID[z]]
            ELSE Num(0)]])

\* dat_vav: each zone's column is its AHU's discharge temperature; the column
\* of a zone whose AHU is no column of the AHU table is never assigned
DatVav(ahu_dat, map_df, valid_zones) ==
    DF(ahu_dat.index, valid_zones,
       [t \in ahu_dat.index |-> [z \in valid_zones |->
            IF map_df.AHUID[z] \in ahu_dat.columns
            THEN ahu_dat.val[t][map_df.AHUID[z]]
            ELSE NaN]])

\* faulty variant: the zones without any discharge temperature are left out
PropMatchedOnly(iat_f, dat_vav, airflow_f, valid_zones) ==
    LET matched == {z \in valid_zones : \E t \in dat_vav.index : ~IsNaN(dat_vav.val[t][z])}
    IN  DF(dat_vav.index, matched,
           [t \in dat_vav.index |-> [z \in matched |->
                ClipLower0(Mul(Sub(iat_f.val[t][z], dat_vav.val[t][z]),
                               airflow_f.val[t][z]))]])

\* faulty variant: the factor is clipped before the airflow is applied
PropClipDiff(iat_f, dat_vav, airflow_f, valid_zones) ==
    DF(dat_vav.index, valid_zones,
       [t \in dat_vav.index |-> [z \in valid_zones |->
            Mul(ClipLower0(Sub(iat_f.val[t][z], dat_vav.val[t][z])),
                airflow_f.val[t][z])]])

\* prop = ((iat - dat_vav) * airflow).clip(lower=0)
Prop(iat_f, dat_vav, airflow_f, valid_zones) ==
    DF(dat_vav.index, valid_zones,
       [t \in dat_vav.index |-> [z \in valid_zones |->
            ClipLower0(Mul(Sub(iat_f.val[t][z], dat_vav.val[t][z]),
                           airflow_f.val[t][z]))]])

\* tot_prop = prop.sum(axis=1)
TotProp(prop) == [t \in prop.index |-> SumSkipNa(prop.val[t], prop.columns)]

\* safe_tot_prop = tot_prop.replace(0, np.nan)
SafeTotProp(tot_prop) ==
    [t \in DOMAIN tot_prop |-> IF tot_prop[t].n = 0 THEN NaN ELSE tot_prop[t]]

\* faulty variant: the share is not divided by the total proportion
AllocationUnnormalised(cooling_f, prop, safe_tot_prop) ==
    DF(prop.index, prop.columns,
       [t \in prop.index |-> [z \in prop.columns |->
            IF IsNaN(safe_tot_prop[t]) THEN NaN
            ELSE Mul(cooling_f.val[t]["Cooling"], prop.val[t][z])]])

\* cooling_zonal[col] = cooling_values * prop[col] / safe_tot_prop
Allocation(cooling_f, prop, safe_tot_prop) ==
    DF(prop.index, prop.columns,
       [t \in prop.index |-> [z \in prop.columns |->
            Div(Mul(cooling_f.val[t]["Cooling"], prop.val[t][z]), safe_tot_prop[t])]])

\* faulty variant: NaN cells are left in the table
FillNaNone(df) == df

\* cooling_zonal.fillna(0, inplace=True)
FillNa0(df) ==
    DF(df.index, df.columns,
       [t \in df.index |-> [c \in df.columns |->
            IF IsNaN(df.val[t][c]) THEN Num(0) ELSE df.val[t][c]]])

\* faulty variant: a row is kept only if no zone is 0 in it
DropRowsWithZero(df) ==
    LET keep == {t \in df.index : \A c \in df.columns : NotZero(df.val[t][c])}
    IN  DF(keep, df.columns, [t \in keep |-> df.val[t]])

\* faulty variant: the columns that are 0 in every kept row are dropped too
DropZeroRowsAndColumns(df) ==
    LET keep == {t \in df.index : \E c \in df.columns : NotZero(df.val[t][c])}
        cols == {c \in df.columns : \E t \in keep : NotZero(df.val[t][c])}
    IN  DF(keep, cols, [t \in keep |-> [c \in cols |-> df.val[t][c]]])

\* cooling_zonal.loc[(cooling_zonal != 0).any(axis=1)]
DropZeroRows(df) ==
    LET keep == {t \in df.index : \E c \in df.columns : NotZero(df.val[t][c])}
    IN  DF(keep, df.columns, [t \in keep |-> df.val[t]])

get_cooling_zonal_from_data(ahu_dat_df, iat_df, airflow_df, map_df, cooling_project_series) ==
    IF AllocatorMissingInput(ahu_dat_df, iat_df, airflow_df, map_df, cooling_project_series)
    THEN None
    ELSE IF ~MapSchemaOK(map_df) THEN ValueError
    ELSE
    LET common_index == CommonIndex(ahu_dat_df, iat_df, airflow_df, cooling_project_series)
        ahu_dat     == AlignFill(ahu_dat_df, common_index)
        iat_f       == AlignFill(iat_df, common_index)
        airflow_f   == AlignFill(airflow_df, common_index)
        cooling_f   == AlignFill(cooling_project_series, common_index)
        valid_zones == ValidZones(map_df, iat_df, airflow_df)
        dat_vav     == DatVav(ahu_dat, map_df, valid_zones)
        prop        == Prop(iat_f, dat_vav, airflow_f, valid_zones)
        tot_prop    == TotProp(prop)
        safe        == SafeTotProp(tot_prop)
    IN  DropZeroRows(FillNa0(Allocation(cooling_f, prop, safe)))

-----------------------------------------------------------------------------
(* categorize_cooling_by_iat_bins_from_data *)

\* the six columns of the binned table, in the code's order
BinNames ==
    <<"bin1_IAT<HSP", "bin2_0-25%", "bin3_25-50%", "bin4_50-75%", "bin5_75-100%", "bin6_IAT>CSP">>

BinColumns == {BinNames[b] : b \in 1..6}

\* faulty variant: the cooling setpoints are checked for None but not for .empty
ClassifierMissingInputCspNoneOnly(iat_df, hsp_df, csp_df, df_cooling_zonal) ==
    \/ IsNone(df_cooling_zonal) \/ Empty(df_cooling_zonal)
    \/ IsNone(iat_df) \/ Empty(iat_df)
    \/ IsNone(hsp_df) \/ Empty(hsp_df)
    \/ IsNone(csp_df)

\* the four "is None or .empty" checks, in the code's order
ClassifierMissingInput(iat_df, hsp_df, csp_df, df_cooling_zonal) ==
    \/ IsNone(df_cooling_zonal) \/ Empty(df_cooling_zonal)
    \/ IsNone(iat_df) \/ Empty(iat_df)
    \/ IsNone(hsp_df) \/ Empty(hsp_df)
    \/ IsNone(csp_df) \/ Empty(csp_df)

\* df.reindex(index=common_index, columns=common_cols).ffill().bfill()
AlignToZonal(df, common_index, common_cols) ==
    BFill(FFill(Reindex(df, common_index, common_cols)))

\* temp_range = (csp - hsp).clip(lower=0), one cell
TempRange(h, c) == ClipLower0(Sub(c, h))

\* faulty variant: the cuts are measured down from csp
BinCutFromCsp(h, c, q) == Sub(c, Mul(Rat(q, 4), TempRange(h, c)))

\* bin_cut_25 / bin_cut_50 / bin_cut_75 = hsp + (q/4) * temp_range, one cell
BinCut(h, c, q) == Add(h, Mul(Rat(q, 4), TempRange(h, c)))

\* faulty variant: a boundary belongs to the lower bin
InBinLowerTie(b, i, h, c) ==
    CASE b = 1 -> ~Lt(h, i) /\ ~IsNaN(i) /\ ~IsNaN(h)
      [] b = 2 -> Lt(h, i) /\ Ge(BinCut(h, c, 1), i)
      [] b = 3 -> Lt(BinCut(h, c, 1), i) /\ Ge(BinCut(h, c, 2), i)
      [] b = 4 -> Lt(BinCut(h, c, 2), i) /\ Ge(BinCut(h, c, 3), i)
      [] b = 5 -> Lt(BinCut(h, c, 3), i) /\ Ge(c, i)
      [] b = 6 -> Lt(c, i)

\* the boolean masks bin1 .. bin6, one cell (i = iat, h = hsp, c = csp)
InBin(b, i, h, c) ==
    CASE b = 1 -> Lt(i, h)
      [] b = 2 -> Ge(i, h) /\ Lt(i, BinCut(h, c, 1))
      [] b = 3 -> Ge(i, BinCut(h, c, 1)) /\ Lt(i, BinCut(h, c, 2))
      [] b = 4 -> Ge(i, BinCut(h, c, 2)) /\ Lt(i, BinCut(h, c, 3))
      [] b = 5 -> Ge(i, BinCut(h, c, 3)) /\ Lt(i, c)
      [] b = 6 -> Ge(i, c)

\* df_cooling_zonal.where(bin, 0).sum(axis=1), one row
BinCooling(b, t, iat_a, hsp_a, csp_a, df_cooling_zonal) ==
    SumSkipNa([z \in df_cooling_zonal.columns |->
                  IF InBin(b, iat_a.val[t][z], hsp_a.val[t][z], csp_a.val[t][z])
                  THEN df_cooling_zonal.val[t][z]
                  ELSE Num(0)],
              df_cooling_zonal.columns)

categorize_cooling_by_iat_bins_from_data(iat_df, hsp_df, csp_df, df_cooling_zonal) ==
    IF ClassifierMissingInput(iat_df, hsp_df, csp_df, df_cooling_zonal) THEN None
    ELSE
    LET common_index == df_cooling_zonal.index
        common_cols  == df_cooling_zonal.columns
        iat_a == AlignToZonal(iat_df, common_index, common_cols)
        hsp_a == AlignToZonal(hsp_df, common_index, common_cols)
        csp_a == AlignToZonal(csp_df, common_index, common_cols)
    IN  IF Empty(iat_a) \/ Empty(hsp_a) \/ Empty(csp_a) THEN None
        ELSE DF(common_index, BinColumns,
                [t \in common_index |-> [col \in BinColumns |->
                    LET b == CHOOSE k \in 1..6 : BinNames[k] = col
                    IN  BinCooling(b, t, iat_a, hsp_a, csp_a, df_cooling_zonal)]])

-----------------------------------------------------------------------------
(* create_regrouped_stacked_area_plot: the three categories it plots *)

GroupNames == {"Wasted", "Excess", "Useful"}

\* df_bin_cooling.get(col, 0), one row: a missing column counts as 0
Get(df_bin_cooling, col, t) ==
    IF col \in df_bin_cooling.columns THEN df_bin_cooling.val[t][col] ELSE Num(0)

\* the row of df_grouped at t
Grouped(df_bin_cooling, t) ==
    [g \in GroupNames |->
        CASE g = "Wasted" -> Get(df_bin_cooling, BinNames[1], t)
          [] g = "Excess" -> Add(Get(df_bin_cooling, BinNames[2], t),
                                 Get(df_bin_cooling, BinNames[3], t))
          [] g = "Useful" -> Add(Add(Get(df_bin_cooling, BinNames[4], t),
                                     Get(df_bin_cooling, BinNames[5], t)),
                                 Get(df_bin_cooling, BinNames[6], t))]

\* the table df_grouped the figure is drawn from (normalize=False)
create_regrouped_stacked_area_plot(df_bin_cooling) ==
    \* go.Figure(layout=go.Layout(title=title + " (No Data)"))
    IF IsNone(df_bin_cooling) \/ Empty(df_bin_cooling) THEN [kind |-> "NoData"]
    ELSE DF(df_bin_cooling.index, GroupNames,
            [t \in df_bin_cooling.index |-> Grouped(df_bin_cooling, t)])

-----------------------------------------------------------------------------
(* The pipelines: update_dashboard and process_building_data *)

\* faulty variant: a stage's result is used without being tested
Unchecked(df) == FALSE

\* `df is None or df.empty`, the test applied to a stage's result
NoData(df) == IsNone(df) \/ Empty(df)

\* how a run ended: the stage results, the outcome, and the stages that ran
\* ("allocation": the allocator was called, "binning": the classifier was)
Run(z, b, outcome, calls) == [zonal |-> z, binned |-> b, pc |-> outcome, called |-> calls]

\* the binning stage of both pipelines and the test of its result
BinningStage(iat_df, hsp_df, csp_df, z, calls) ==
    LET b == categorize_cooling_by_iat_bins_from_data(iat_df, hsp_df, csp_df, z)
        all == calls \cup {"binning"}
    IN  IF NoData(b) THEN Run(z, b, "failure", all) ELSE Run(z, b, "result", all)

\* update_dashboard: an upload that did not parse ends the run; an exception of
\* the analysis is caught and ends the run with the error outcome
update_dashboard(iat_df, hsp_df, csp_df, airflow_df, ahu_dat_df, map_df, cooling_df) ==
    IF \E i \in 1..7 :
          IsNone(<<iat_df, hsp_df, csp_df, airflow_df, ahu_dat_df, map_df, cooling_df>>[i])
    THEN Run([kind |-> "Pending"], [kind |-> "Pending"], "failure", {})
    ELSE
    LET z == get_cooling_zonal_from_data(ahu_dat_df, iat_df, airflow_df, map_df, cooling_df)
        calls == {"allocation"}
    IN  IF z = ValueError THEN Run([kind |-> "Pending"], [kind |-> "Pending"], "failure", calls)
        ELSE IF NoData(z) THEN Run(z, [kind |-> "Pending"], "failure", calls)
        ELSE BinningStage(iat_df, hsp_df, csp_df, z, calls)

\* pd.DataFrame()
EmptyFrame == DF({}, {}, <<>>)

\* the zonal table returned by calculate_original_bin1_wasted_cooling_per_zone
\* (second component), with the stages that ran
calculate_original_bin1_wasted_cooling_per_zone(ahu_dat_df, iat_df, hsp_df, airflow_df, map_df, cooling_df) ==
    IF \E i \in 1..6 :
          IsNone(<<airflow_df, iat_df, hsp_df, ahu_dat_df, map_df, cooling_df>>[i])
    THEN [zonal |-> EmptyFrame, called |-> {}]
    ELSE IF \E i \in 1..6 :
          Empty(<<airflow_df, iat_df, hsp_df, ahu_dat_df, map_df, cooling_df>>[i])
    THEN [zonal |-> EmptyFrame, called |-> {}]
    ELSE
    LET z == get_cooling_zonal_from_data(ahu_dat_df, iat_df, airflow_df, map_df, cooling_df)
        calls == {"allocation"}
    IN  IF z = ValueError THEN [zonal |-> EmptyFrame, called |-> calls]
        ELSE IF IsNone(z) \/ Empty(z) THEN [zonal |-> EmptyFrame, called |-> calls]
        ELSE [zonal |-> z, called |-> calls]

\* process_building_data: the stages that produce the zonal and binned tables
process_building_data(iat_df, hsp_df, csp_df, airflow_df, ahu_dat_df, map_df, cooling_df) ==
    LET o == calculate_original_bin1_wasted_cooling_per_zone(
                 ahu_dat_df, iat_df, hsp_df, airflow_df, map_df, cooling_df)
    IN  IF NoData(o.zonal) THEN Run(o.zonal, [kind |-> "Pending"], "failure", o.called)
        ELSE BinningStage(iat_df, hsp_df, csp_df, o.zonal, o.called)

-----------------------------------------------------------------------------
(* Input tables of the initial states *)

\* the last timestamp an input sample can carry, in half hours
MaxTime == 2

Times == 0..MaxTime

Zones == {"A", "B"}

AHUs == {"H1", "H2"}

Pending == [kind |-> "Pending"]

\* a table of the integer cells f[t, c]
Table(index, columns, f) ==
    DF(index, columns, [t \in index |-> [c \in columns |-> Num(f[t, c])]])

DefIndex == {0, HourStep}

DatDefault == Table(DefIndex, AHUs, [t \in DefIndex, c \in AHUs |-> 55])

IatDefault == Table(DefIndex, Zones, [t \in DefIndex, c \in Zones |-> IF c = "A" THEN 57 ELSE 56])

AirflowDefault == Table(DefIndex, Zones, [t \in DefIndex, c \in Zones |-> IF c = "A" THEN 1 ELSE 3])

CoolingDefault == Table(DefIndex, {"Cooling"}, [t \in DefIndex, c \in {"Cooling"} |-> 3])

HspDefault == Table(DefIndex, Zones, [t \in DefIndex, c \in Zones |-> 55])

CspDefault == Table(DefIndex, Zones, [t \in DefIndex, c \in Zones |-> 59])

MapDefault == MapDF({"ZoneID", "AHUID"}, Zones, [z \in Zones |-> IF z = "A" THEN "H1" ELSE "H2"])

\* a table, the same table without rows, without columns, and no table at all
Shapes(df) == {df, Reindex(df, {}, df.columns), Reindex(df, df.index, {}), None}

MapShapes ==
    {None, MapDF({"ZoneID", "AHUID"}, {}, <<>>)}
      \cup {MapDF(cols, Zones, MapDefault.AHUID) : cols \in SUBSET {"ZoneID", "AHUID"}}

\* inputs that differ in which tables are present, empty or malformed
InitShape ==
    /\ pc = "allocate"
    /\ called = {}
    /\ dat \in Shapes(DatDefault)
    /\ iat \in Shapes(IatDefault)
    /\ airflow \in Shapes(AirflowDefault)
    /\ zmap \in MapShapes
    /\ cooling \in {CoolingDefault, Reindex(CoolingDefault, {}, {"Cooling"}), None}
    /\ hsp = HspDefault
    /\ csp = CspDefault
    /\ zonal = Pending
    /\ binned = Pending
    /\ grouped = Pending

\* inputs that differ in the values of a two-zone, two-hour building: at hour 0
\* every zone's temperature difference, airflow and the building cooling vary;
\* at hour 1 the airflows and the building cooling vary
InitValues ==
    \E dA, dB \in {-1, 0, 2}, fA, fB \in {-1, 0, 1, 3}, c0 \in {-2, 0, 3},
       g \in {0, 1}, c1 \in {0, 4} :
        /\ pc = "allocate"
        /\ called = {}
        /\ dat = DatDefault
        /\ iat = Table(DefIndex, Zones, [t \in DefIndex, z \in Zones |-> IF t = 0 THEN 55 + (IF z = "A" THEN dA ELSE dB) ELSE 56])
        /\ airflow = Table(DefIndex, Zones, [t \in DefIndex, z \in Zones |-> IF t = 0 THEN (IF z = "A" THEN fA ELSE fB) ELSE g])
        /\ zmap = MapDefault
        /\ cooling = Table(DefIndex, {"Cooling"}, [t \in DefIndex, c \in {"Cooling"} |-> IF t = 0 THEN c0 ELSE c1])
        /\ hsp = HspDefault
        /\ csp \in {CspDefault, Table(DefIndex, Zones, [t \in DefIndex, c \in Zones |-> 54])}
        /\ zonal = Pending
        /\ binned = Pending
        /\ grouped = Pending

\* inputs that differ in their column sets and in the zone -> AHU assignment
InitZones ==
    \E mz \in SUBSET Zones \ {{}}, iz \in SUBSET Zones \ {{}},
       fz \in SUBSET Zones \ {{}}, ah \in SUBSET AHUs \ {{}} :
      \E ahuOf \in [mz -> AHUs] :
        /\ pc = "allocate"
        /\ called = {}
        /\ dat = Reindex(DatDefault, DefIndex, ah)
        /\ iat = Reindex(IatDefault, DefIndex, iz)
        /\ airflow = Reindex(AirflowDefault, DefIndex, fz)
        /\ zmap = MapDF({"ZoneID", "AHUID"}, mz, ahuOf)
        /\ cooling = CoolingDefault
        /\ hsp = HspDefault
        /\ csp = CspDefault
        /\ zonal = Pending
        /\ binned = Pending
        /\ grouped = Pending

\* inputs that differ in their time indices; a sample's value tells its timestamp
InitAxis ==
    \E di \in SUBSET Times \ {{}}, ii \in SUBSET Times \ {{}}, ci \in SUBSET Times \ {{}} :
        /\ pc = "allocate"
        /\ called = {}
        /\ dat = Table(di, AHUs, [t \in di, c \in AHUs |-> 50 - t])
        /\ iat = Table(ii, Zones, [t \in ii, c \in Zones |-> 60 + t])
        /\ airflow = Table(ii, Zones, [t \in ii, c \in Zones |-> IF c = "A" THEN 1 + t ELSE 2])
        /\ zmap = MapDefault
        /\ cooling = Table(ci, {"Cooling"}, [t \in ci, c \in {"Cooling"} |-> 10 + t])
        /\ hsp = Table(di, Zones, [t \in di, c \in Zones |-> 58 + t])
        /\ csp = Table(ci, Zones, [t \in ci, c \in Zones |-> 62 + t])
        /\ zonal = Pending
        /\ binned = Pending
        /\ grouped = Pending

\* inputs of the classifier called on its own: one row, two zones, every
\* position of iat against the setpoints, present or absent tables; the
\* (hsp, csp) pairs are a deadband of 4, of 6, of 0, and a reversed pair
InitClassifier ==
    \E spA, spB \in {<<68, 72>>, <<68, 74>>, <<70, 70>>, <<70, 68>>}, iA, iB \in 67..74, zA \in {1, -2}, icols \in {Zones, {"A"}} :
        /\ pc = "categorize"
        /\ called = {}
        /\ dat = None /\ airflow = None /\ zmap = None /\ cooling = None
        /\ iat = Table({0}, icols, [t \in {0}, z \in icols |-> IF z = "A" THEN iA ELSE iB])
        /\ hsp = Table({0}, Zones, [t \in {0}, z \in Zones |-> IF z = "A" THEN spA[1] ELSE spB[1]])
        /\ csp = Table({0}, Zones, [t \in {0}, z \in Zones |-> IF z = "A" THEN spA[2] ELSE spB[2]])
        /\ zonal = Table({0}, Zones, [t \in {0}, z \in Zones |-> IF z = "A" THEN zA ELSE 2])
        /\ binned = Pending
        /\ grouped = Pending

ZonalDefault == Table(DefIndex, Zones, [t \in DefIndex, z \in Zones |-> IF z = "A" THEN 1 ELSE 2])

InitClassifierShape ==
    /\ pc = "categorize"
    /\ called = {}
    /\ dat = None /\ airflow = None /\ zmap = None /\ cooling = None
    /\ iat \in Shapes(IatDefault)
    /\ hsp \in Shapes(HspDefault)
    /\ csp \in Shapes(CspDefault)
    /\ zonal \in Shapes(ZonalDefault)
    /\ binned = Pending
    /\ grouped = Pending

\* a table with the cells of df under other labels: rename[c] is the column
\* that carries df's column c, at[t] the timestamp that carries df's row t
Relabel(df, rename, at) ==
    DF({at[t] : t \in df.index}, {rename[c] : c \in df.columns},
       [u \in {at[t] : t \in df.index} |->
            [k \in {rename[c] : c \in df.columns} |->
                df.val[CHOOSE t \in df.index : at[t] = u][CHOOSE c \in df.columns : rename[c] = k]]])

\* a table, the table under foreign column labels, and the table sampled at
\* timestamps that are no row of the zonal table
Overlaps(df) ==
    {df,
     Relabel(df, [z \in Zones |-> IF z = "A" THEN "Y" ELSE "Z"], [t \in DefIndex |-> t]),
     Relabel(df, [z \in Zones |-> z], [t \in DefIndex |-> t + 1])}

\* inputs of the classifier called on its own that share, or do not share,
\* columns and timestamps with the zonal table
InitClassifierOverlap ==
    /\ pc = "categorize"
    /\ called = {}
    /\ dat = None /\ airflow = None /\ zmap = None /\ cooling = None
    /\ iat \in Overlaps(IatDefault)
    /\ hsp \in Overlaps(HspDefault)
    /\ csp \in Overlaps(CspDefault)
    /\ zonal = ZonalDefault
    /\ binned = Pending
    /\ grouped = Pending

\* a building cooling that is 0 at every hour
CoolingZero == Table(DefIndex, {"Cooling"}, [t \in DefIndex, c \in {"Cooling"} |-> 0])

\* inputs of a pipeline run: tables present, empty or malformed, and a building
\* cooling that leaves no row; process_building_data reads every table from a
\* file, so none of its tables is None and its map has a column
InitPipeline ==
    /\ pc \in {"update_dashboard", "process_building_data"}
    /\ called = {}
    /\ dat \in Shapes(DatDefault)
    /\ iat \in Shapes(IatDefault)
    /\ airflow \in {AirflowDefault, None}
    /\ zmap \in MapShapes
    /\ cooling \in {CoolingDefault, CoolingZero, Reindex(CoolingDefault, {}, {"Cooling"}), None}
    /\ hsp \in Shapes(HspDefault)
    /\ csp \in {CspDefault, Reindex(CspDefault, {}, Zones), None}
    /\ pc = "process_building_data" =>
          /\ \A i \in 1..7 : ~IsNone(<<dat, iat, airflow, zmap, cooling, hsp, csp>>[i])
          /\ zmap.columns # {}
    /\ zonal = Pending
    /\ binned = Pending
    /\ grouped = Pending

\* the last timestamp of the inputs with gaps, in half hours
GapSpan == 4

GapTimes == 0..GapSpan

\* inputs whose iat and hsp have gaps: dat, airflow, the building cooling and
\* csp are sampled at every half hour, iat and hsp at any timestamps; the
\* building cooling is 0 at the hours of zero, whose rows the allocator drops
InitGaps ==
    \E ii \in SUBSET GapTimes \ {{}}, hi \in SUBSET GapTimes \ {{}},
       zero \in {{}, {0, GapSpan}} :
        /\ pc = "allocate"
        /\ called = {}
        /\ dat = Table(GapTimes, AHUs, [t \in GapTimes, c \in AHUs |-> 50])
        /\ iat = Table(ii, Zones, [t \in ii, c \in Zones |-> 60 + t])
        /\ airflow = Table(GapTimes, Zones, [t \in GapTimes, c \in Zones |-> IF c = "A" THEN 1 ELSE 2])
        /\ zmap = MapDefault
        /\ cooling = Table(GapTimes, {"Cooling"}, [t \in GapTimes, c \in {"Cooling"} |-> IF t \in zero THEN 0 ELSE 10 + t])
        /\ hsp = Table(hi, Zones, [t \in hi, c \in Zones |-> 58 + t])
        /\ csp = Table(GapTimes, Zones, [t \in GapTimes, c \in Zones |-> 70])
        /\ zonal = Pending
        /\ binned = Pending
        /\ grouped = Pending

\* the worked example: one AHU, two zones, a single hour
ScenarioDat == Table({0}, {"H1"}, [t \in {0}, c \in {"H1"} |-> 55])

ScenarioIat == Table({0}, Zones, [t \in {0}, z \in Zones |-> IF z = "A" THEN 72 ELSE 70])

ScenarioAirflow == Table({0}, Zones, [t \in {0}, z \in Zones |-> IF z = "A" THEN 100 ELSE 50])

ScenarioMap == MapDF({"ZoneID", "AHUID"}, Zones, [z \in Zones |-> "H1"])

ScenarioCooling == Table({0}, {"Cooling"}, [t \in {0}, c \in {"Cooling"} |-> 150])

ScenarioHsp == Table({0}, Zones, [t \in {0}, z \in Zones |-> 68])

ScenarioCsp == Table({0}, Zones, [t \in {0}, z \in Zones |-> 74])

InitScenario ==
    /\ pc = "allocate"
    /\ called = {}
    /\ dat = ScenarioDat
    /\ iat = ScenarioIat
    /\ airflow = ScenarioAirflow
    /\ zmap = ScenarioMap
    /\ cooling = ScenarioCooling
    /\ hsp = ScenarioHsp
    /\ csp = ScenarioCsp
    /\ zonal = Pending
    /\ binned = Pending
    /\ grouped = Pending

\* nothing but a single run of the core functions takes place
\* the module state as the module's top level leaves it, no callback executing
LoaderIdle ==
    /\ LOADING_QUEUE = <<>>
    /\ LOADING_IN_PROGRESS = FALSE
    /\ CURRENTLY_LOADING = {}
    /\ CURRENT_USER_BUILDING = "None"
    /\ building_cache = {}
    /\ background = <<>>
    /\ foreground = <<>>
    /\ fetched = <<>>

OtherIdle ==
    /\ log = <<>> /\ top_wasteful = Pending /\ top_demanding = Pending /\ simulation = Pending
    /\ invocation = <<>> /\ frames = <<>> /\ LoaderIdle

Init ==
    /\ OtherIdle
    /\ \/ InitShape
       \/ InitValues
       \/ InitZones
       \/ InitAxis
       \/ InitClassifier
       \/ InitClassifierShape
       \/ InitClassifierOverlap
       \/ InitPipeline
       \/ InitGaps
       \/ InitScenario

-----------------------------------------------------------------------------
(* Actions *)

\* a call of get_cooling_zonal_from_data; a raised ValueError ends the run
Allocate ==
    /\ pc = "allocate"
    /\ zonal' = get_cooling_zonal_from_data(dat, iat, airflow, zmap, cooling)
    /\ pc' = IF zonal' = ValueError THEN "raised" ELSE "categorize"
    /\ called' = called \cup {"get_cooling_zonal_from_data"}
    /\ UNCHANGED <<dat, iat, airflow, zmap, cooling, hsp, csp, binned, grouped, otherVars>>

\* a call of categorize_cooling_by_iat_bins_from_data on the zonal table
Categorize ==
    /\ pc = "categorize"
    /\ binned' = categorize_cooling_by_iat_bins_from_data(iat, hsp, csp, zonal)
    /\ pc' = "done"
    /\ called' = called \cup {"categorize_cooling_by_iat_bins_from_data"}
    /\ UNCHANGED <<dat, iat, airflow, zmap, cooling, hsp, csp, zonal, grouped, otherVars>>

\* a run of the dashboard callback on the uploaded tables
UpdateDashboard ==
    /\ pc = "update_dashboard"
    /\ LET r == update_dashboard(iat, hsp, csp, airflow, dat, zmap, cooling)
       IN  /\ zonal' = r.zonal
           /\ binned' = r.binned
           /\ pc' = r.pc
           /\ called' = called \cup {"update_dashboard"} \cup r.called
    /\ UNCHANGED <<dat, iat, airflow, zmap, cooling, hsp, csp, grouped, otherVars>>

\* a run of the batch processing of one building
ProcessBuildingData ==
    /\ pc = "process_building_data"
    /\ LET r == process_building_data(iat, hsp, csp, airflow, dat, zmap, cooling)
       IN  /\ zonal' = r.zonal
           /\ binned' = r.binned
           /\ pc' = r.pc
           /\ called' = called \cup {"process_building_data"} \cup r.called
    /\ UNCHANGED <<dat, iat, airflow, zmap, cooling, hsp, csp, grouped, otherVars>>

\* a call of create_regrouped_stacked_area_plot on the classifier's result
Regroup ==
    /\ pc = "done"
    /\ grouped' = create_regrouped_stacked_area_plot(binned)
    /\ pc' = "plotted"
    /\ called' = called \cup {"create_regrouped_stacked_area_plot"}
    /\ UNCHANGED <<dat, iat, airflow, zmap, cooling, hsp, csp, zonal, binned, otherVars>>

Next == Allocate \/ Categorize \/ Regroup \/ UpdateDashboard \/ ProcessBuildingData

Spec == Init /\ [][Next]_vars

-----------------------------------------------------------------------------
(* Quantities the allocator's properties speak of, derived from the inputs *)

AllocatorReturned == "get_cooling_zonal_from_data" \in called

ClassifierReturned == "categorize_cooling_by_iat_bins_from_data" \in called

\* all five inputs present and non-empty, and the map has both columns
AllocatorInputsValid ==
    /\ ~IsNone(dat) /\ dat.index # {} /\ dat.columns # {}
    /\ ~IsNone(iat) /\ iat.index # {} /\ iat.columns # {}
    /\ ~IsNone(airflow) /\ airflow.index # {} /\ airflow.columns # {}
    /\ ~IsNone(zmap) /\ zmap.index # {} /\ zmap.columns = {"ZoneID", "AHUID"}
    /\ ~IsNone(cooling) /\ cooling.index # {}

\* the allocator returned a table for valid inputs
Allocated == AllocatorReturned /\ AllocatorInputsValid /\ IsFrame(zonal)

Axis == CommonIndex(dat, iat, airflow, cooling)

\* buildingCooling(t): the building cooling at t after reindexing and filling
buildingCooling(t) == AlignFill(cooling, Axis).val[t]["Cooling"]

\* the discharge temperature assigned to zone z at t, NaN without an AHU column
assignedDAT(t, z) ==
    IF zmap.AHUID[z] \in dat.columns
    THEN AlignFill(dat, Axis).val[t][zmap.AHUID[z]]
    ELSE NaN

\* proportion(t, z) = max(0, (IAT - assignedDAT) * airflow); 0 when undefined
proportion(t, z) ==
    LET x == Mul(Sub(AlignFill(iat, Axis).val[t][z], assignedDAT(t, z)),
                 AlignFill(airflow, Axis).val[t][z])
    IN  IF IsNaN(x) \/ x.n < 0 THEN Num(0) ELSE x

\* totalProportion(t): the sum of proportion over the output zones
totalProportion(t) ==
    SumSkipNa([z \in zonal.columns |-> proportion(t, z)], zonal.columns)

RowSum(df, t) == SumSkipNa(df.val[t], df.columns)

-----------------------------------------------------------------------------
(* Properties of the allocator *)

\* C1  Conservation: at every timestep retained in the allocator's output whose
\* total proportion is positive, the zones' allocations sum to the building
\* cooling at that timestep (after reindexing and filling).
Conservation ==
    Allocated =>
        \A t \in zonal.index :
            totalProportion(t).n > 0 => RowSum(zonal, t) = buildingCooling(t)

\* a retained row in which both zones receive a share
ConservationWitness ==
    /\ Allocated
    /\ \E t \in zonal.index :
          /\ totalProportion(t).n > 0
          /\ \A z \in Zones : z \in zonal.columns /\ zonal.val[t][z].n # 0
          /\ RowSum(zonal, t) = buildingCooling(t)

\* C2  Proportional split: at every retained timestep with positive total
\* proportion and for every output zone, allocation * totalProportion equals
\* buildingCooling * proportion; a negative building cooling is not clamped and
\* gives negative allocations to exactly the zones of positive proportion.
ProportionalSplit ==
    Allocated =>
        \A t \in zonal.index :
            totalProportion(t).n > 0 =>
                \A z \in zonal.columns :
                    /\ Mul(zonal.val[t][z], totalProportion(t))
                         = Mul(buildingCooling(t), proportion(t, z))
                    /\ buildingCooling(t).n < 0 =>
                         (zonal.val[t][z].n < 0 <=> proportion(t, z).n > 0)

\* a negative building cooling split over one zone of positive proportion while
\* the other zone's raw factor is negative
ProportionalSplitWitness ==
    /\ Allocated
    /\ \E t \in zonal.index :
          /\ totalProportion(t).n > 0
          /\ buildingCooling(t).n < 0
          /\ \E z \in zonal.columns : zonal.val[t][z].n < 0
          /\ \E z \in zonal.columns :
                /\ zonal.val[t][z].n = 0
                /\ Lt(AlignFill(iat, Axis).val[t][z], assignedDAT(t, z))

\* C3  Non-negativity: when the building cooling is >= 0 at every timestep of
\* the result's index, every value of the allocator's output is >= 0, whatever
\* the signs of IAT - DAT and of the airflow.
NonNegativity ==
    Allocated /\ (\A t \in zonal.index : buildingCooling(t).n >= 0) =>
        \A t \in zonal.index : \A z \in zonal.columns :
            ~IsNaN(zonal.val[t][z]) /\ zonal.val[t][z].n >= 0

\* a retained row with non-negative cooling in which one zone's raw factor
\* (IAT - DAT) * airflow is negative
NonNegativityWitness ==
    /\ Allocated
    /\ \A t \in zonal.index : buildingCooling(t).n >= 0
    /\ \E t \in zonal.index : \E z \in zonal.columns :
          Mul(Sub(AlignFill(iat, Axis).val[t][z], assignedDAT(t, z)),
              AlignFill(airflow, Axis).val[t][z]).n < 0

\* C7  Zero total proportion: for valid inputs the allocator returns a table
\* (no error) without any NaN, and a timestep whose total proportion is 0 has
\* every allocation 0 whatever the building cooling there: it is an all-zero
\* row, which the cleanup drops, so it is no row of the output.
ZeroTotalProportion ==
    AllocatorReturned /\ AllocatorInputsValid =>
        /\ IsFrame(zonal)
        /\ \A t \in zonal.index : \A c \in zonal.columns : ~IsNaN(zonal.val[t][c])
        /\ \A t \in Axis : totalProportion(t).n = 0 => t \notin zonal.index

\* every zone has airflow 0 at an hour whose building cooling is not 0, and
\* another hour is retained in the output
ZeroTotalProportionWitness ==
    /\ Allocated
    /\ zonal.index # {}
    /\ \E t \in Axis :
          /\ totalProportion(t).n = 0
          /\ \A z \in zonal.columns : AlignFill(airflow, Axis).val[t][z] = Num(0)
          /\ buildingCooling(t).n # 0
          /\ t \notin zonal.index

\* C8  Allocator missing input: if any one of the five inputs is None or empty,
\* the allocator returns None and raises nothing, whatever the other four are,
\* also when the map lacks its required columns.
MissingInputReturnsNone ==
    AllocatorReturned /\ ( \/ IsNone(dat) \/ dat.index = {} \/ dat.columns = {}
                           \/ IsNone(iat) \/ iat.index = {} \/ iat.columns = {}
                           \/ IsNone(airflow) \/ airflow.index = {} \/ airflow.columns = {}
                           \/ IsNone(zmap) \/ zmap.index = {} \/ zmap.columns = {}
                           \/ IsNone(cooling) \/ cooling.index = {} ) =>
        zonal = None /\ pc # "raised"

\* the building cooling is the one empty input, and the map has rows but lacks
\* the AHUID column
MissingInputReturnsNoneWitness ==
    /\ AllocatorReturned
    /\ ~IsNone(dat) /\ ~Empty(dat) /\ ~IsNone(iat) /\ ~Empty(iat)
    /\ ~IsNone(airflow) /\ ~Empty(airflow)
    /\ ~IsNone(zmap) /\ zmap.index # {} /\ zmap.columns = {"ZoneID"}
    /\ ~IsNone(cooling) /\ cooling.index = {}
    /\ zonal = None

\* the map is a table that lacks ZoneID or AHUID
MapLacksColumn == ~IsNone(zmap) /\ ~({"ZoneID", "AHUID"} \subseteq zmap.columns)

\* C9 as stated: whenever the map lacks the ZoneID or the AHUID column, the
\* allocator raises ValueError.
SchemaViolationAlwaysRaises ==
    AllocatorReturned /\ MapLacksColumn => zonal = ValueError

\* C9 amended: when all five inputs are present and non-empty and the map lacks
\* the ZoneID or the AHUID column, the allocator raises ValueError, an outcome
\* distinct from None, and returns no table; a ValueError is raised in no other
\* case (with an input None or empty the result is None, schema or not).
SchemaViolationRaises ==
    AllocatorReturned =>
        /\ ( /\ ~IsNone(dat) /\ ~Empty(dat) /\ ~IsNone(iat) /\ ~Empty(iat)
             /\ ~IsNone(airflow) /\ ~Empty(airflow)
             /\ ~IsNone(cooling) /\ cooling.index # {}
             /\ MapLacksColumn /\ zmap.index # {} /\ zmap.columns # {} )
           => zonal = ValueError /\ zonal # None /\ ~IsFrame(zonal) /\ pc = "raised"
        /\ zonal = ValueError => MapLacksColumn

\* all inputs present, the map has rows and the AHUID column but no ZoneID
SchemaViolationRaisesWitness ==
    /\ AllocatorReturned
    /\ ~IsNone(zmap) /\ zmap.index # {} /\ zmap.columns = {"AHUID"}
    /\ zonal = ValueError
    /\ pc = "raised"

-----------------------------------------------------------------------------
(* Properties of the classifier *)

\* the classifier returned a table
Classified == ClassifierReturned /\ IsFrame(binned)

\* iat, hsp and csp of a cell after alignment on the zonal table
alignedIat(t, z) == AlignToZonal(iat, zonal.index, zonal.columns).val[t][z]

alignedHsp(t, z) == AlignToZonal(hsp, zonal.index, zonal.columns).val[t][z]

alignedCsp(t, z) == AlignToZonal(csp, zonal.index, zonal.columns).val[t][z]

\* the cell's three aligned values are numbers
NumericCell(t, z) ==
    ~IsNaN(alignedIat(t, z)) /\ ~IsNaN(alignedHsp(t, z)) /\ ~IsNaN(alignedCsp(t, z))

\* the bins whose mask is True at the cell
BinsOf(t, z) == {b \in 1..6 : InBin(b, alignedIat(t, z), alignedHsp(t, z), alignedCsp(t, z))}

\* C4 as stated: every (time, zone) cell, for every combination of numeric iat,
\* hsp and csp (csp >= hsp not assumed), is in exactly one of the six bins.
BinExhaustiveExclusive ==
    Classified =>
        \A t \in zonal.index : \A z \in zonal.columns :
            NumericCell(t, z) => Cardinality(BinsOf(t, z)) = 1

\* C5 as stated: the binned table has the zonal table's time index and exactly
\* six columns, and at every timestep the six bins sum to the zones' total
\* (checked on tables whose aligned iat, hsp and csp are numbers in every cell).
BinRowSumIdentity ==
    Classified /\ (\A t \in zonal.index : \A z \in zonal.columns : NumericCell(t, z)) =>
        /\ binned.index = zonal.index
        /\ binned.columns = BinColumns /\ Cardinality(binned.columns) = 6
        /\ \A t \in binned.index : RowSum(binned, t) = RowSum(zonal, t)

\* iat sits on the cut hsp + (q/4) * (csp - hsp)
OnCut(i, h, c, q) == Mul(Num(4), Sub(i, h)) = Mul(Num(q), Sub(c, h))

\* C6 as stated: a cell with iat = hsp is in bin 2 and not in bin 1; a cell with
\* iat = csp is in bin 6 and not in bin 5 (checked on cells with csp >= hsp).
TieBreakAsStated ==
    Classified =>
        \A t \in zonal.index : \A z \in zonal.columns :
            NumericCell(t, z) /\ Ge(alignedCsp(t, z), alignedHsp(t, z)) =>
                /\ alignedIat(t, z) = alignedHsp(t, z) =>
                      2 \in BinsOf(t, z) /\ 1 \notin BinsOf(t, z)
                /\ alignedIat(t, z) = alignedCsp(t, z) =>
                      6 \in BinsOf(t, z) /\ 5 \notin BinsOf(t, z)

\* C6 amended: a cell with iat = hsp is never in bin 1; it is in bin 2 (only)
\* when csp > hsp, and in bin 6 and none of bins 2..5 when csp <= hsp (bins 2..5
\* are then empty).  A cell with iat = csp is in bin 6 and not in bin 5.  With
\* csp > hsp a cell exactly on the 25%, 50% or 75% cut is in the upper bin only.
TieBreak ==
    Classified =>
        \A t \in zonal.index : \A z \in zonal.columns :
            LET i == alignedIat(t, z)
                h == alignedHsp(t, z)
                c == alignedCsp(t, z)
            IN  NumericCell(t, z) =>
                /\ i = h => /\ 1 \notin BinsOf(t, z)
                            /\ IF Lt(h, c) THEN BinsOf(t, z) = {2}
                               ELSE 6 \in BinsOf(t, z) /\ BinsOf(t, z) \cap (2..5) = {}
                /\ i = c => 6 \in BinsOf(t, z) /\ 5 \notin BinsOf(t, z)
                /\ \A q \in 1..3 : Lt(h, c) /\ OnCut(i, h, c, q) => BinsOf(t, z) = {q + 2}

\* one zone sits on its heating setpoint with a positive deadband while the
\* other sits on an interior cut, and the table was binned
TieBreakWitness ==
    /\ Classified
    /\ \E t \in zonal.index : \E y, z \in zonal.columns :
          /\ NumericCell(t, y) /\ NumericCell(t, z)
          /\ alignedIat(t, y) = alignedHsp(t, y) /\ Lt(alignedHsp(t, y), alignedCsp(t, y))
          /\ Lt(alignedHsp(t, z), alignedCsp(t, z))
          /\ \E q \in 1..3 : OnCut(alignedIat(t, z), alignedHsp(t, z), alignedCsp(t, z), q)
          /\ binned.val[t][BinNames[2]] = zonal.val[t][y]

\* C10  Classifier missing input: if any one of iat, hsp, csp or the zonal table
\* is None or empty, the classifier returns None and raises nothing, whatever
\* the other three are.
ClassifierMissingReturnsNone ==
    ClassifierReturned /\ ( \/ IsNone(zonal) \/ zonal.index = {} \/ zonal.columns = {}
                            \/ IsNone(iat) \/ iat.index = {} \/ iat.columns = {}
                            \/ IsNone(hsp) \/ hsp.index = {} \/ hsp.columns = {}
                            \/ IsNone(csp) \/ csp.index = {} \/ csp.columns = {} ) =>
        binned = None

\* csp is the one empty input of a classifier call
ClassifierMissingReturnsNoneWitness ==
    /\ ClassifierReturned
    /\ IsFrame(zonal) /\ ~Empty(zonal)
    /\ ~IsNone(iat) /\ ~Empty(iat) /\ ~IsNone(hsp) /\ ~Empty(hsp)
    /\ ~IsNone(csp) /\ Empty(csp)
    /\ binned = None

\* the table shares no column, or no timestamp, with the zonal table
NoOverlap(df) ==
    \/ df.columns \cap zonal.columns = {}
    \/ df.index \cap zonal.index = {}

\* C11 as stated: when the zonal table and iat, hsp and csp are present and
\* non-empty but none of iat, hsp and csp overlaps the zonal table's columns and
\* timestamps, the classifier returns None rather than a binned table.
AlignmentDegeneracyReturnsNone ==
    ( /\ ClassifierReturned
      /\ IsFrame(zonal) /\ ~Empty(zonal)
      /\ IsFrame(iat) /\ ~Empty(iat) /\ NoOverlap(iat)
      /\ IsFrame(hsp) /\ ~Empty(hsp) /\ NoOverlap(hsp)
      /\ IsFrame(csp) /\ ~Empty(csp) /\ NoOverlap(csp) )
    => binned = None

-----------------------------------------------------------------------------
(* Properties of the pipelines *)

\* C12  Pipeline short-circuit: the classifier called on a None or empty zonal
\* table returns None; a run of update_dashboard or process_building_data whose
\* allocation stage yields no non-empty table ends with the failure outcome
\* and without a binned table; a binned table exists only beside a non-empty
\* zonal table.
PipelineShortCircuit ==
    /\ ClassifierReturned /\ (IsNone(zonal) \/ (IsFrame(zonal) /\ Empty(zonal))) => binned = None
    /\ pc \in {"failure", "result"} /\ ~(IsFrame(zonal) /\ ~Empty(zonal)) =>
          pc = "failure" /\ ~IsFrame(binned)
    /\ IsFrame(binned) => IsFrame(zonal) /\ ~Empty(zonal)

\* valid inputs whose allocation leaves no row: the pipeline stopped with the
\* failure outcome after the allocator and did not call the classifier
PipelineShortCircuitWitness ==
    /\ pc = "failure"
    /\ "allocation" \in called /\ "binning" \notin called
    /\ AllocatorInputsValid
    /\ IsFrame(zonal) /\ Empty(zonal)
    /\ binned = Pending
    /\ grouped = Pending

-----------------------------------------------------------------------------
(* Properties of the allocator: zones and rows of the output *)

\* C13  Zone filtering: for valid inputs the allocator returns a table (no
\* error) whose columns are exactly the zones that are a ZoneID of the map, a
\* column of iat and a column of airflow, whatever the data values are.
ZoneFiltering ==
    AllocatorReturned /\ AllocatorInputsValid =>
        /\ IsFrame(zonal)
        /\ zonal.columns = {z \in Zones : z \in zmap.index /\ z \in iat.columns /\ z \in airflow.columns}

\* a zone of the map and of iat that has no airflow column is left out of an
\* output that has rows
ZoneFilteringWitness ==
    /\ Allocated
    /\ zonal.index # {}
    /\ \E z \in Zones :
          /\ z \in zmap.index /\ z \in iat.columns /\ z \notin airflow.columns
          /\ z \notin zonal.columns

\* the output zones whose AHU is, respectively is not, a column of dat
MatchedZones == {z \in zonal.columns : zmap.AHUID[z] \in dat.columns}

UnmatchedZones == zonal.columns \ MatchedZones

\* C14  Unmatched AHU: for valid inputs no error is raised, and an output zone
\* whose AHU has no column in dat has a missing assigned discharge temperature
\* and a missing factor (counted as 0 in the total) at every timestep of the
\* axis and allocation 0 in every row; in a row of positive total proportion the matched zones receive the
\* whole building cooling, each in proportion to its factor among them.
UnmatchedAHU ==
    AllocatorReturned /\ AllocatorInputsValid =>
        /\ IsFrame(zonal)
        /\ \A z \in UnmatchedZones :
              /\ \A t \in Axis :
                    /\ IsNaN(DatVav(AlignFill(dat, Axis), zmap, zonal.columns).val[t][z])
                    /\ IsNaN(Prop(AlignFill(iat, Axis),
                                  DatVav(AlignFill(dat, Axis), zmap, zonal.columns),
                                  AlignFill(airflow, Axis), zonal.columns).val[t][z])
              /\ \A t \in zonal.index : zonal.val[t][z] = Num(0)
        /\ UnmatchedZones # {} =>
              \A t \in zonal.index :
                 LET total == SumSkipNa([y \in MatchedZones |-> proportion(t, y)], MatchedZones)
                 IN  total.n > 0 =>
                       /\ SumSkipNa([y \in MatchedZones |-> zonal.val[t][y]], MatchedZones)
                            = buildingCooling(t)
                       /\ \A y \in MatchedZones :
                             Mul(zonal.val[t][y], total) = Mul(buildingCooling(t), proportion(t, y))

\* one zone's AHU has no column in dat, and the other zone receives the whole
\* building cooling of a retained row
UnmatchedAHUWitness ==
    /\ Allocated
    /\ \E z \in UnmatchedZones : \E y \in MatchedZones : \E t \in zonal.index :
          /\ zonal.val[t][z] = Num(0)
          /\ zonal.val[t][y] = buildingCooling(t)
          /\ buildingCooling(t).n # 0

\* C15 as stated: a zone whose AHU identifier in the map has no column in dat
\* is not a column of the allocator's output.
UnmatchedZonesDropped ==
    Allocated =>
        \A z \in (zmap.index \cap iat.columns) \cap airflow.columns :
            zmap.AHUID[z] \notin dat.columns => z \notin zonal.columns

\* C15 amended: a zone of the map, of iat and of airflow whose AHU identifier
\* has no column in dat stays a column of the allocator's output, and that
\* column is 0 in every row.
UnmatchedZonesKept ==
    AllocatorReturned /\ AllocatorInputsValid =>
        /\ IsFrame(zonal)
        /\ \A z \in (zmap.index \cap iat.columns) \cap airflow.columns :
              zmap.AHUID[z] \notin dat.columns =>
                  /\ z \in zonal.columns
                  /\ \A t \in zonal.index : zonal.val[t][z] = Num(0)

\* an output with rows that has a column for a zone whose AHU is no column of dat
UnmatchedZonesKeptWitness ==
    /\ Allocated
    /\ zonal.index # {}
    /\ \E z \in zonal.columns :
          /\ zmap.AHUID[z] \notin dat.columns
          /\ \A t \in zonal.index : zonal.val[t][z] = Num(0)

\* the allocation of zone z at t as the specification defines it: building
\* cooling * proportion / total proportion, and 0 where that is undefined
allocation(t, z) ==
    LET x == Div(Mul(buildingCooling(t), proportion(t, z)), totalProportion(t))
    IN  IF IsNaN(x) THEN Num(0) ELSE x

\* C16  Cleanup invariant: every row of the allocator's output has a zone with
\* a non-zero allocation, the rows are timesteps of the common axis, and a
\* timestep of the axis is absent from the output if and only if every zone's
\* allocation there is exactly 0.
CleanupInvariant ==
    AllocatorReturned /\ AllocatorInputsValid =>
        /\ IsFrame(zonal)
        /\ zonal.index \subseteq Axis
        /\ \A t \in zonal.index : \E z \in zonal.columns : zonal.val[t][z] # Num(0)
        /\ \A t \in Axis :
              t \notin zonal.index <=> \A z \in zonal.columns : allocation(t, z) = Num(0)

\* one hour of the axis is dropped, and a retained hour has a zone at 0 beside
\* a zone that is not
CleanupInvariantWitness ==
    /\ Allocated
    /\ \E t \in Axis : t \notin zonal.index
    /\ \E u \in zonal.index : \E y, z \in zonal.columns :
          zonal.val[u][y] = Num(0) /\ zonal.val[u][z] # Num(0)

-----------------------------------------------------------------------------
(* Properties of the alignment *)

\* the statement's fill of df on index: an index timestamp without a sample
\* takes the nearest earlier sample of df inside df's observed range, and df's
\* first sample before it
FilledFromNearestSample(df, filled, index) ==
    \A t \in index \ df.index : \A c \in df.columns \cap filled.columns :
        /\ SetMin(df.index) < t /\ t < SetMax(df.index) =>
              filled.val[t][c] = df.val[SetMax({u \in df.index : u < t})][c]
        /\ t < SetMin(df.index) =>
              filled.val[t][c] = df.val[SetMin(df.index)][c]

\* the fill of df on index from the samples df has at timestamps of index: the
\* sample at t, else the nearest earlier one, else the nearest later one, else
\* nothing
FilledFromIndexSample(df, filled, index) ==
    \A t \in index : \A c \in df.columns \cap filled.columns :
        LET earlier == {u \in df.index \cap index : u <= t}
            later   == {u \in df.index \cap index : u >= t}
        IN  filled.val[t][c] =
                IF earlier # {} THEN df.val[SetMax(earlier)][c]
                ELSE IF later # {} THEN df.val[SetMin(later)][c]
                ELSE NaN

\* the classifier was called on tables that are all present and non-empty
ClassifierInputsValid ==
    /\ IsFrame(zonal) /\ ~Empty(zonal)
    /\ IsFrame(iat) /\ ~Empty(iat)
    /\ IsFrame(hsp) /\ ~Empty(hsp)
    /\ IsFrame(csp) /\ ~Empty(csp)

\* C17 as stated: on the common axis, and in the classifier on the zonal
\* table's index, a timestamp without a sample of a series takes the series'
\* nearest earlier sample when it lies strictly inside the series' observed
\* range and the series' nearest later sample when it lies before its first.
ReindexFillAsStated ==
    /\ AllocatorReturned /\ AllocatorInputsValid =>
          /\ FilledFromNearestSample(dat, AlignFill(dat, Axis), Axis)
          /\ FilledFromNearestSample(iat, AlignFill(iat, Axis), Axis)
          /\ FilledFromNearestSample(airflow, AlignFill(airflow, Axis), Axis)
          /\ FilledFromNearestSample(cooling, AlignFill(cooling, Axis), Axis)
    /\ ClassifierReturned /\ ClassifierInputsValid =>
          /\ FilledFromNearestSample(iat, AlignToZonal(iat, zonal.index, zonal.columns), zonal.index)
          /\ FilledFromNearestSample(hsp, AlignToZonal(hsp, zonal.index, zonal.columns), zonal.index)
          /\ FilledFromNearestSample(csp, AlignToZonal(csp, zonal.index, zonal.columns), zonal.index)

\* C17 amended: putting a series on the common axis keeps only its samples at
\* timestamps of the axis; an axis timestamp takes the series' sample there,
\* else the nearest earlier kept sample, else the nearest later kept sample,
\* and is missing when no sample is kept.  The classifier fills iat, hsp and
\* csp the same way from their samples at the zonal table's timestamps.
ReindexFill ==
    /\ AllocatorReturned /\ AllocatorInputsValid =>
          /\ FilledFromIndexSample(dat, AlignFill(dat, Axis), Axis)
          /\ FilledFromIndexSample(iat, AlignFill(iat, Axis), Axis)
          /\ FilledFromIndexSample(airflow, AlignFill(airflow, Axis), Axis)
          /\ FilledFromIndexSample(cooling, AlignFill(cooling, Axis), Axis)
    /\ ClassifierReturned /\ ClassifierInputsValid =>
          /\ FilledFromIndexSample(iat, AlignToZonal(iat, zonal.index, zonal.columns), zonal.index)
          /\ FilledFromIndexSample(hsp, AlignToZonal(hsp, zonal.index, zonal.columns), zonal.index)
          /\ FilledFromIndexSample(csp, AlignToZonal(csp, zonal.index, zonal.columns), zonal.index)

\* an hour inside iat's observed range is filled from iat's earlier sample on
\* the axis although a half-hour sample lies nearer, and in the classifier a
\* row before hsp's first sample is filled from a later sample than the first
ReindexFillWitness ==
    /\ Allocated /\ ClassifierReturned /\ ClassifierInputsValid
    /\ \E t \in Axis \ iat.index : \E u \in iat.index \ Axis : \E v \in iat.index \cap Axis :
          /\ v < u /\ u < t /\ t < SetMax(iat.index)
          /\ AlignFill(iat, Axis).val[t]["A"] = iat.val[v]["A"]
    /\ \E t \in zonal.index \ hsp.index :
          /\ t < SetMin(hsp.index)
          /\ ~IsNaN(alignedHsp(t, "A"))
          /\ alignedHsp(t, "A") # hsp.val[SetMin(hsp.index)]["A"]

\* U: the union of the time indices of dat, iat, airflow and the building cooling
AllIndices == dat.index \cup iat.index \cup airflow.index \cup cooling.index

\* C18  Common time axis: every timestamp of the allocator's output lies in
\* [min(U), max(U)] and is min(U) plus a whole number of hours, whatever the
\* sampling of the inputs.
CommonTimeAxis ==
    AllocatorReturned /\ AllocatorInputsValid =>
        /\ IsFrame(zonal)
        /\ \A t \in zonal.index :
              /\ SetMin(AllIndices) <= t /\ t <= SetMax(AllIndices)
              /\ \E k \in 0..SetMax(AllIndices) : t = SetMin(AllIndices) + k * HourStep

\* the inputs have a sample at a half hour that is no point of the axis, and
\* the output has two rows, one hour apart
CommonTimeAxisWitness ==
    /\ Allocated
    /\ \E u \in AllIndices :
          /\ (u - SetMin(AllIndices)) % HourStep # 0
          /\ u \notin zonal.index
    /\ \E t \in zonal.index : t + HourStep \in zonal.index

-----------------------------------------------------------------------------
(* Properties of the regrouping *)

\* the three categories were computed from a binned table
Regrouped == "create_regrouped_stacked_area_plot" \in called /\ IsFrame(grouped)

\* C19 as stated: Wasted + Excess + Useful equals the sum of the six bins, which
\* is the total allocated cooling, at every timestep of the binned table
\* (checked on tables whose aligned iat, hsp and csp are numbers in every cell).
RegroupingIdentity ==
    Regrouped /\ (\A t \in zonal.index : \A z \in zonal.columns : NumericCell(t, z)) =>
        /\ grouped.index = binned.index
        /\ \A t \in grouped.index : RowSum(grouped, t) = RowSum(binned, t)
        /\ \A t \in grouped.index : RowSum(grouped, t) = RowSum(zonal, t)

-----------------------------------------------------------------------------
(* The worked example *)

\* the inputs are those of the worked example
InScenario ==
    /\ dat = ScenarioDat /\ iat = ScenarioIat /\ airflow = ScenarioAirflow
    /\ zmap = ScenarioMap /\ cooling = ScenarioCooling
    /\ hsp = ScenarioHsp /\ csp = ScenarioCsp

\* C20  Concrete scenario: with DAT 55, zone A (IAT 72, airflow 100) and zone B
\* (IAT 70, airflow 50), HSP 68, CSP 74 and building cooling 150 at one hour,
\* the allocator returns A = 150*1700/2450 and B = 150*750/2450, which sum to
\* 150, and the classifier returns one row with bin 4 = A's allocation, bin 3 =
\* B's allocation and bins 1, 2, 5 and 6 equal to 0.
ConcreteScenario ==
    /\ InScenario /\ AllocatorReturned =>
          /\ IsFrame(zonal) /\ zonal.index = {0} /\ zonal.columns = Zones
          /\ zonal.val[0]["A"] = Rat(150 * 1700, 2450)
          /\ zonal.val[0]["B"] = Rat(150 * 750, 2450)
          /\ Add(zonal.val[0]["A"], zonal.val[0]["B"]) = Num(150)
    /\ InScenario /\ ClassifierReturned =>
          /\ IsFrame(binned) /\ binned.index = {0}
          /\ binned.val[0][BinNames[4]] = Rat(150 * 1700, 2450)
          /\ binned.val[0][BinNames[3]] = Rat(150 * 750, 2450)
          /\ \A b \in {1, 2, 5, 6} : binned.val[0][BinNames[b]] = Num(0)

\* the worked example went through the allocator and the classifier
ConcreteScenarioWitness ==
    /\ InScenario
    /\ AllocatorReturned /\ ClassifierReturned
    /\ IsFrame(zonal) /\ IsFrame(binned)

-----------------------------------------------------------------------------
(* Repeated calls of the core functions by one caller *)

\* the number of calls a caller makes in a row
MaxCalls == 3

\* the core functions have no state of their own: idle
CoreIdle ==
    /\ pc = "caller"
    /\ called = {}
    /\ zonal = Pending /\ binned = Pending /\ grouped = Pending

\* faulty variant: the index is set in place, which takes the ZoneID column
\* out of the caller's table
AfterCallInPlace(df) ==
    IF IsFrame(df) /\ "ZoneID" \in df.columns
    THEN [df EXCEPT !.columns = @ \ {"ZoneID"}]
    ELSE df

\* the caller's table after a call: set_index, reindex, [] and clip return new
\* tables, and fillna(inplace=True) is applied to a table the call created
AfterCall(df) == df

\* a table without the AHUID column
MapNoAHUID == MapDF({"ZoneID"}, Zones, MapDefault.AHUID)

\* the tables a caller holds
InitCalls ==
    /\ CoreIdle
    /\ OtherIdle
    /\ dat = DatDefault
    /\ iat \in {IatDefault, None}
    /\ airflow = AirflowDefault
    /\ zmap \in {MapDefault, MapNoAHUID}
    /\ cooling \in {CoolingDefault, CoolingZero}
    /\ hsp = HspDefault
    /\ csp \in {CspDefault, None}

\* one more call of get_cooling_zonal_from_data on the caller's tables
CallAllocator ==
    /\ Len(log) < MaxCalls
    /\ LET r == get_cooling_zonal_from_data(dat, iat, airflow, zmap, cooling)
       IN  /\ zonal' = r
           /\ log' = Append(log, [fn |-> "get_cooling_zonal_from_data",
                                  args |-> <<dat, iat, airflow, zmap, cooling>>,
                                  result |-> r,
                                  after |-> <<AfterCall(dat), AfterCall(iat), AfterCall(airflow),
                                              AfterCall(zmap), AfterCall(cooling)>>])
    /\ dat' = AfterCall(dat) /\ iat' = AfterCall(iat) /\ airflow' = AfterCall(airflow)
    /\ zmap' = AfterCall(zmap) /\ cooling' = AfterCall(cooling)
    /\ UNCHANGED <<pc, called, hsp, csp, binned, grouped, top_wasteful, top_demanding,
                   simulation, invocation, frames, loaderVars>>

\* one more call of categorize_cooling_by_iat_bins_from_data, on the latest
\* result of the allocator that is a table or None
CallClassifier ==
    /\ Len(log) < MaxCalls
    /\ IsNone(zonal) \/ IsFrame(zonal)
    /\ LET r == categorize_cooling_by_iat_bins_from_data(iat, hsp, csp, zonal)
       IN  /\ binned' = r
           /\ log' = Append(log, [fn |-> "categorize_cooling_by_iat_bins_from_data",
                                  args |-> <<iat, hsp, csp, zonal>>,
                                  result |-> r,
                                  after |-> <<AfterCall(iat), AfterCall(hsp), AfterCall(csp),
                                              AfterCall(zonal)>>])
    /\ iat' = AfterCall(iat) /\ hsp' = AfterCall(hsp) /\ csp' = AfterCall(csp)
    /\ zonal' = AfterCall(zonal)
    /\ UNCHANGED <<pc, called, dat, airflow, zmap, cooling, grouped, top_wasteful, top_demanding,
                   simulation, invocation, frames, loaderVars>>

\* between two calls the caller replaces one of its tables
ChangeInputs ==
    /\ log # <<>> /\ Len(log) < MaxCalls
    /\ \/ iat' \in {IatDefault, None} \ {iat} /\ UNCHANGED <<zmap, cooling, csp>>
       \/ zmap' \in {MapDefault, MapNoAHUID} \ {zmap} /\ UNCHANGED <<iat, cooling, csp>>
       \/ cooling' \in {CoolingDefault, CoolingZero} \ {cooling} /\ UNCHANGED <<iat, zmap, csp>>
       \/ csp' \in {CspDefault, None} \ {csp} /\ UNCHANGED <<iat, zmap, cooling>>
    /\ UNCHANGED <<pc, called, dat, airflow, hsp, zonal, binned, grouped, otherVars>>

CallsSpec == InitCalls /\ [][CallAllocator \/ CallClassifier \/ ChangeInputs]_vars

-----------------------------------------------------------------------------
(* Concurrent invocations of the core, one per building *)

\* faulty variant: the local variables are module-level, one set for all
SharedFrame(i) == 1

\* the frame of an invocation: a call's parameters and local variables are
\* its own
Frame(i) == i

NoLocals == [args |-> Pending, zonal |-> Pending, binned |-> Pending]

InitConcurrent ==
    /\ CoreIdle
    /\ dat = DatDefault /\ iat = IatDefault /\ airflow = AirflowDefault /\ zmap = MapDefault
    /\ cooling = CoolingDefault /\ hsp = HspDefault /\ csp = CspDefault
    /\ log = <<>> /\ top_wasteful = Pending /\ top_demanding = Pending /\ simulation = Pending
    /\ LoaderIdle
    /\ frames = [i \in 1..2 |-> NoLocals]
    \* the tables of each building: dat, iat, airflow, map, cooling, hsp, csp
    /\ \E a, b \in { <<DatDefault, i, AirflowDefault, m, c, HspDefault, s>> :
                       i \in {IatDefault, None}, m \in {MapDefault, MapNoAHUID},
                       c \in {CoolingDefault, CoolingZero}, s \in {CspDefault, None} } :
          invocation = [i \in 1..2 |->
                          [pc |-> "start", args |-> IF i = 1 THEN a ELSE b, result |-> Pending]]

\* the call binds the arguments to the parameters
Enter(i) ==
    /\ invocation[i].pc = "start"
    /\ frames' = [frames EXCEPT ![Frame(i)] = [NoLocals EXCEPT !.args = invocation[i].args]]
    /\ invocation' = [invocation EXCEPT ![i].pc = "entered"]
    /\ UNCHANGED <<runVars, loaderVars>>

\* get_cooling_zonal_from_data on the parameters
AllocateStep(i) ==
    /\ invocation[i].pc = "entered"
    /\ LET a == frames[Frame(i)].args
           r == IF a = Pending THEN Pending
                ELSE get_cooling_zonal_from_data(a[1], a[2], a[3], a[4], a[5])
       IN  /\ frames' = [frames EXCEPT ![Frame(i)].zonal = r]
           /\ invocation' = [invocation EXCEPT ![i].pc = "allocated"]
    /\ UNCHANGED <<runVars, loaderVars>>

\* categorize_cooling_by_iat_bins_from_data on the parameters and the zonal
\* table, unless the allocator raised
CategorizeStep(i) ==
    /\ invocation[i].pc = "allocated"
    /\ LET a == frames[Frame(i)].args
           z == frames[Frame(i)].zonal
           r == IF a = Pending \/ ~(IsNone(z) \/ IsFrame(z)) THEN Pending
                ELSE categorize_cooling_by_iat_bins_from_data(a[2], a[6], a[7], z)
       IN  /\ frames' = [frames EXCEPT ![Frame(i)].binned = r]
           /\ invocation' = [invocation EXCEPT ![i].pc = "categorized"]
    /\ UNCHANGED <<runVars, loaderVars>>

\* the invocation returns its tables
Return(i) ==
    /\ invocation[i].pc = "categorized"
    /\ invocation' = [invocation EXCEPT ![i].pc = "returned",
                                        ![i].result = <<frames[Frame(i)].zonal,
                                                        frames[Frame(i)].binned>>]
    /\ UNCHANGED <<frames, runVars, loaderVars>>

ConcurrentNext ==
    \E i \in 1..2 : Enter(i) \/ AllocateStep(i) \/ CategorizeStep(i) \/ Return(i)

ConcurrentSpec == InitConcurrent /\ [][ConcurrentNext]_vars

-----------------------------------------------------------------------------
(* Ranking of the zones by the pipelines *)

\* top_n, and the 10 of min(10, len(...))
TopN == 10

\* the columns of the zonal table, in column order
ZoneOrder == <<"Z01", "Z02", "Z03", "Z04", "Z05", "Z06", "Z07", "Z08", "Z09", "Z10", "Z11">>

\* df.sum(axis=0) of one column
ColumnSum(df, z) == SumSkipNa([t \in df.index |-> df.val[t][z]], df.index)

\* df_cooling_zonal.where(bin1_mask, 0) with bin1_mask = aligned_iat < aligned_hsp
Where(df_cooling_zonal, aligned_iat, aligned_hsp) ==
    DF(df_cooling_zonal.index, df_cooling_zonal.columns,
       [t \in df_cooling_zonal.index |-> [z \in df_cooling_zonal.columns |->
            IF Lt(aligned_iat.val[t][z], aligned_hsp.val[t][z])
            THEN df_cooling_zonal.val[t][z] ELSE Num(0)]])

\* the series of the column sums, in column order
Totals(df) ==
    LET cols == SelectSeq(ZoneOrder, LAMBDA z : z \in df.columns)
    IN  [i \in 1..Len(cols) |-> [Zone |-> cols[i], Total |-> ColumnSum(df, cols[i])]]

\* Series.nlargest(n): the n largest entries, largest first, the first of equal
\* entries first
RECURSIVE NLargest(_, _)
NLargest(series, n) ==
    IF n = 0 \/ series = <<>> THEN <<>>
    ELSE LET i == CHOOSE k \in 1..Len(series) :
                    /\ \A j \in 1..Len(series) : Ge(series[k].Total, series[j].Total)
                    /\ \A j \in 1..(k - 1) : Lt(series[j].Total, series[k].Total)
         IN  <<series[i]>> \o
             NLargest(SubSeq(series, 1, i - 1) \o SubSeq(series, i + 1, Len(series)), n - 1)

\* the hours of the zonal table of a ranking
RankTimes == {0, HourStep, 2 * HourStep}

\* the inputs of a ranking: a zonal table of 1, TopN or TopN + 1 zones over
\* three hours, and setpoints and temperatures; the temperatures may lack the
\* middle hour
InitRank ==
    /\ pc = "ranking" /\ called = {} /\ binned = Pending /\ grouped = Pending
    /\ dat = Pending /\ airflow = Pending /\ zmap = Pending /\ cooling = Pending /\ csp = Pending
    /\ log = <<>> /\ simulation = Pending /\ top_wasteful = Pending /\ top_demanding = Pending
    /\ invocation = <<>> /\ frames = <<>> /\ LoaderIdle
    /\ \E k \in {1, TopN, TopN + 1}, iat_index \in {RankTimes, RankTimes \ {HourStep}},
          v \in [{1, TopN, TopN + 1} -> {0, 2, 7}], w \in [{1, TopN, TopN + 1} -> {19, 21}] :
          \* the zonal table has no row of zeros
          /\ k = 1 => v[1] # 0
          /\ LET cols == {ZoneOrder[i] : i \in 1..k}
              pos(z) == CHOOSE i \in 1..k : ZoneOrder[i] = z
             IN  /\ zonal = Table(RankTimes, cols,
                                  [t \in RankTimes, z \in cols |->
                                      IF t # 0 THEN 1
                                      ELSE IF pos(z) \in DOMAIN v THEN v[pos(z)]
                                      ELSE ((pos(z) * 3) % 5) + 1])
                 /\ iat = Table(iat_index, cols,
                                [t \in iat_index, z \in cols |->
                                      IF t # 0 THEN 19
                                      ELSE IF pos(z) \in DOMAIN w THEN w[pos(z)]
                                      ELSE 19 + 2 * (pos(z) % 2)])
                 /\ hsp = Table(RankTimes, cols, [t \in RankTimes, z \in cols |-> 20])

\* process_building_data: the two rankings, on temperatures reindexed to the
\* zonal table
RankPreloaded ==
    /\ pc = "ranking"
    /\ LET common_index == zonal.index
           common_cols == zonal.columns
           aligned_iat == Reindex(iat, common_index, common_cols)
           aligned_hsp == Reindex(hsp, common_index, common_cols)
           total_wasteful_per_zone == Totals(Where(zonal, aligned_iat, aligned_hsp))
           total_cooling_per_zone == Totals(zonal)
       IN  /\ top_wasteful' = NLargest(total_wasteful_per_zone,
                                       IF TopN < Len(total_wasteful_per_zone) THEN TopN
                                       ELSE Len(total_wasteful_per_zone))
           /\ top_demanding' = NLargest(total_cooling_per_zone,
                                        IF TopN < Len(total_cooling_per_zone) THEN TopN
                                        ELSE Len(total_cooling_per_zone))
    /\ pc' = "ranked" /\ called' = {"process_building_data"}
    /\ UNCHANGED <<dat, iat, airflow, zmap, cooling, hsp, csp, zonal, binned, grouped,
                   log, simulation, invocation, frames, loaderVars>>

\* update_dashboard: the two rankings, on temperatures reindexed to the zonal
\* table and filled forward and backward
RankDashboard ==
    /\ pc = "ranking"
    /\ LET aligned_iat == AlignToZonal(iat, zonal.index, zonal.columns)
           aligned_hsp == AlignToZonal(hsp, zonal.index, zonal.columns)
       IN  /\ top_wasteful' = NLargest(Totals(Where(zonal, aligned_iat, aligned_hsp)), TopN)
           /\ top_demanding' = NLargest(Totals(zonal), TopN)
    /\ pc' = "ranked" /\ called' = {"update_dashboard"}
    /\ UNCHANGED <<dat, iat, airflow, zmap, cooling, hsp, csp, zonal, binned, grouped,
                   log, simulation, invocation, frames, loaderVars>>

RankSpec == InitRank /\ [][RankPreloaded \/ RankDashboard]_vars

\* a list holds min(TopN, number of zones) distinct zones with their totals,
\* largest first, and no zone left out has a larger total than a zone in it
Ranked(list, total) ==
    /\ Len(list) = IF TopN < Cardinality(zonal.columns) THEN TopN
                   ELSE Cardinality(zonal.columns)
    /\ \A i \in 1..Len(list) :
          /\ list[i].Zone \in zonal.columns
          /\ list[i].Total = total[list[i].Zone]
          /\ \A j \in 1..Len(list) : i < j =>
                /\ list[i].Zone # list[j].Zone
                /\ Ge(list[i].Total, list[j].Total)
          /\ \A z \in zonal.columns \ {list[j].Zone : j \in 1..Len(list)} :
                Ge(list[i].Total, total[z])

\* C23  Top-N ranking: the top-wasteful and top-demanding lists each contain
\* min(10, number of zones) zones, ordered by non-increasing per-zone total
\* (the zone's cooling summed over time, restricted to bin-1 cells for the
\* wasteful list), and no zone left out has a larger total than a zone in it.
TopNRanking ==
    pc = "ranked" =>
        /\ LET iat_a == AlignToZonal(iat, zonal.index, zonal.columns)
               hsp_a == AlignToZonal(hsp, zonal.index, zonal.columns)
               bin1(z) == [t \in zonal.index |->
                              IF InBin(1, iat_a.val[t][z], hsp_a.val[t][z], NaN)
                              THEN zonal.val[t][z] ELSE Num(0)]
           IN  Ranked(top_wasteful,
                      [z \in zonal.columns |-> SumSkipNa(bin1(z), zonal.index)])
        /\ Ranked(top_demanding, [z \in zonal.columns |-> ColumnSum(zonal, z)])

-----------------------------------------------------------------------------
(* The preloaded callbacks: the background loader and the user's selection *)

Buildings == {"X", "Y"}

\* the threads that serve interval ticks
Workers == 1..2

\* the number of calls of initialize_background_loading
MaxInits == 2

\* LOADING_QUEUE.pop(idx), on the list
Pop(queue, idx) == SubSeq(queue, 1, idx - 1) \o SubSeq(queue, idx + 1, Len(queue))

\* faulty variant: the marker is left in the set
ReleaseNothing(loading, name) == loading

\* CURRENTLY_LOADING.remove(name) under "if name in CURRENTLY_LOADING"
Release(loading, name) == loading \ {name}

\* faulty variant: every name is appended
AppendAll(queue, building_names) == queue \o building_names

\* initialize_background_loading(building_names), on the queue
RECURSIVE initialize_background_loading(_, _)
initialize_background_loading(queue, building_names) ==
    IF building_names = <<>> THEN queue
    ELSE LET name == Head(building_names)
         IN  initialize_background_loading(
                 IF \E i \in 1..Len(queue) : queue[i] = name THEN queue ELSE Append(queue, name),
                 Tail(building_names))

\* the for loop of process_background_loading over the queue as it is now:
\* the position of the first entry that is cached, or that is neither the
\* user's building nor being loaded; 0 when the loop ends without a break
Scan(queue, cache, user, loading) ==
    LET hits == {i \in 1..Len(queue) :
                    queue[i] \in cache \/ (queue[i] # user /\ queue[i] \notin loading)}
    IN  IF hits = {} THEN 0 ELSE SetMin(hits)

\* the local variables of a tick, and the number of entries it has popped
IdleWorker ==
    [pc |-> "idle", idx_to_process |-> 0, building_name |-> "None", building_to_load |-> "None",
     popped |-> 0]

InitLoader ==
    /\ CoreIdle
    /\ dat = Pending /\ iat = Pending /\ airflow = Pending /\ zmap = Pending
    /\ cooling = Pending /\ hsp = Pending /\ csp = Pending
    /\ log = <<>> /\ top_wasteful = Pending /\ top_demanding = Pending /\ simulation = Pending
    /\ invocation = <<>> /\ frames = <<>>
    /\ LOADING_QUEUE = <<>>
    /\ LOADING_IN_PROGRESS = FALSE
    /\ CURRENTLY_LOADING = {}
    /\ CURRENT_USER_BUILDING = "None"
    /\ building_cache = {}
    /\ background = [t \in Workers |-> IdleWorker]
    /\ foreground = [pc |-> "idle", building_name |-> "None"]
    /\ fetched = [initialized |-> 0, background_loads |-> [b \in Buildings |-> 0]]

\* the tabs callback calls initialize_background_loading with the names listed
Initialize ==
    /\ fetched.initialized < MaxInits
    /\ \E building_names \in {<<"X", "Y">>, <<"Y", "X", "Y">>, <<"Y">>} :
          LOADING_QUEUE' = initialize_background_loading(LOADING_QUEUE, building_names)
    /\ fetched' = [initialized |-> fetched.initialized + 1,
                   background_loads |-> [b \in Buildings |-> 0]]
    /\ UNCHANGED <<LOADING_IN_PROGRESS, CURRENTLY_LOADING, CURRENT_USER_BUILDING,
                   building_cache, background, foreground>>
    /\ UNCHANGED <<runVars, invocation, frames>>

\* process_background_loading, "if not LOADING_QUEUE or LOADING_IN_PROGRESS":
\* the tick goes on, or returns at once
BgCheck(t) ==
    /\ background[t].pc = "idle"
    /\ background' = [background EXCEPT ![t] =
          [IdleWorker EXCEPT !.pc = IF LOADING_QUEUE = <<>> \/ LOADING_IN_PROGRESS
                                    THEN "skip" ELSE "checked"]]
    /\ UNCHANGED <<LOADING_QUEUE, LOADING_IN_PROGRESS, CURRENTLY_LOADING,
                   CURRENT_USER_BUILDING, building_cache, foreground, fetched>>
    /\ UNCHANGED <<runVars, invocation, frames>>

\* "return dash.no_update" of a tick that found nothing to do
BgSkip(t) ==
    /\ background[t].pc = "skip"
    /\ background' = [background EXCEPT ![t] = IdleWorker]
    /\ UNCHANGED <<LOADING_QUEUE, LOADING_IN_PROGRESS, CURRENTLY_LOADING,
                   CURRENT_USER_BUILDING, building_cache, foreground, fetched>>
    /\ UNCHANGED <<runVars, invocation, frames>>

\* "LOADING_IN_PROGRESS = True"
BgSetFlag(t) ==
    /\ background[t].pc = "checked"
    /\ LOADING_IN_PROGRESS' = TRUE
    /\ background' = [background EXCEPT ![t].pc = "scan"]
    /\ UNCHANGED <<LOADING_QUEUE, CURRENTLY_LOADING, CURRENT_USER_BUILDING,
                   building_cache, foreground, fetched>>
    /\ UNCHANGED <<runVars, invocation, frames>>

\* the for loop up to its break
BgScan(t) ==
    /\ background[t].pc = "scan"
    /\ LET i == Scan(LOADING_QUEUE, building_cache, CURRENT_USER_BUILDING, CURRENTLY_LOADING)
       IN  background' = [background EXCEPT ![t] =
              IF i = 0
              THEN [@ EXCEPT !.pc = "finally", !.idx_to_process = Len(LOADING_QUEUE)]
              ELSE IF LOADING_QUEUE[i] \in building_cache
              THEN [@ EXCEPT !.pc = "popcached", !.idx_to_process = i,
                             !.building_name = LOADING_QUEUE[i]]
              ELSE [@ EXCEPT !.pc = "pop", !.idx_to_process = i,
                             !.building_name = LOADING_QUEUE[i],
                             !.building_to_load = LOADING_QUEUE[i]]]
    /\ UNCHANGED <<LOADING_QUEUE, LOADING_IN_PROGRESS, CURRENTLY_LOADING,
                   CURRENT_USER_BUILDING, building_cache, foreground, fetched>>
    /\ UNCHANGED <<runVars, invocation, frames>>

\* "LOADING_QUEUE.pop(idx_to_process)" of an entry found cached; past the end
\* of the list the IndexError is caught
BgPopCached(t) ==
    /\ background[t].pc = "popcached"
    /\ LET idx == background[t].idx_to_process
       IN  IF idx <= Len(LOADING_QUEUE)
           THEN /\ LOADING_QUEUE' = Pop(LOADING_QUEUE, idx)
                /\ background' = [background EXCEPT ![t].pc = "finally", ![t].popped = @ + 1]
           ELSE /\ background' = [background EXCEPT ![t].pc = "finally"]
                /\ UNCHANGED LOADING_QUEUE
    /\ UNCHANGED <<LOADING_IN_PROGRESS, CURRENTLY_LOADING, CURRENT_USER_BUILDING,
                   building_cache, foreground, fetched>>
    /\ UNCHANGED <<runVars, invocation, frames>>

\* "actual_building = LOADING_QUEUE.pop(idx_to_process)" and the check of the
\* building popped, which starts the load of that building; the IndexError is caught, and the handler releases the
\* marker of building_to_load
BgPop(t) ==
    /\ background[t].pc = "pop"
    /\ LET idx == background[t].idx_to_process
           building_to_load == background[t].building_to_load
       IN  IF idx > Len(LOADING_QUEUE)
           THEN /\ CURRENTLY_LOADING' = Release(CURRENTLY_LOADING, building_to_load)
                /\ background' = [background EXCEPT ![t].pc = "finally"]
                /\ UNCHANGED <<LOADING_QUEUE, LOADING_IN_PROGRESS, fetched>>
           ELSE /\ LOADING_QUEUE' = Pop(LOADING_QUEUE, idx)
                /\ IF LOADING_QUEUE[idx] # building_to_load
                   THEN /\ LOADING_IN_PROGRESS' = FALSE
                        /\ background' = [background EXCEPT ![t] = IdleWorker]
                        /\ UNCHANGED fetched
                   ELSE /\ background' = [background EXCEPT ![t].pc = "mark",
                                                           ![t].popped = @ + 1]
                        /\ fetched' = [fetched EXCEPT !.background_loads[building_to_load] =
                                                         IF @ < 2 THEN @ + 1 ELSE @]
                        /\ UNCHANGED LOADING_IN_PROGRESS
                /\ UNCHANGED CURRENTLY_LOADING
    /\ UNCHANGED <<CURRENT_USER_BUILDING, building_cache, foreground>>
    /\ UNCHANGED <<runVars, invocation, frames>>

\* "CURRENTLY_LOADING.add(building_to_load)"; the fetch starts
BgMark(t) ==
    /\ background[t].pc = "mark"
    /\ CURRENTLY_LOADING' = CURRENTLY_LOADING \cup {background[t].building_to_load}
    /\ background' = [background EXCEPT ![t].pc = "fetch"]
    /\ UNCHANGED <<LOADING_QUEUE, LOADING_IN_PROGRESS, CURRENT_USER_BUILDING,
                   building_cache, foreground, fetched>>
    /\ UNCHANGED <<runVars, invocation, frames>>

\* load_building_data_from_s3 returns data, returns None or raises; the data
\* is cached, and the marker is released on every path
BgFetchDone(t) ==
    /\ background[t].pc = "fetch"
    /\ \E building_data \in {"data", "None", "Exception"} :
          building_cache' = IF building_data = "data"
                            THEN building_cache \cup {background[t].building_to_load}
                            ELSE building_cache
    /\ CURRENTLY_LOADING' = Release(CURRENTLY_LOADING, background[t].building_to_load)
    /\ background' = [background EXCEPT ![t].pc = "finally"]
    /\ UNCHANGED <<LOADING_QUEUE, LOADING_IN_PROGRESS, CURRENT_USER_BUILDING,
                   foreground, fetched>>
    /\ UNCHANGED <<runVars, invocation, frames>>

\* "finally: LOADING_IN_PROGRESS = False"
BgFinally(t) ==
    /\ background[t].pc = "finally"
    /\ LOADING_IN_PROGRESS' = FALSE
    /\ background' = [background EXCEPT ![t] = IdleWorker]
    /\ UNCHANGED <<LOADING_QUEUE, CURRENTLY_LOADING, CURRENT_USER_BUILDING,
                   building_cache, foreground, fetched>>
    /\ UNCHANGED <<runVars, invocation, frames>>

\* the steps of one invocation of process_background_loading
Worker(t) ==
    \/ BgCheck(t) \/ BgSkip(t) \/ BgSetFlag(t) \/ BgScan(t)
    \/ BgPopCached(t) \/ BgPop(t) \/ BgMark(t) \/ BgFetchDone(t) \/ BgFinally(t)

\* load_preloaded_analysis: the user selects a building
FgSelect ==
    /\ foreground.pc = "idle"
    /\ \E building_name \in Buildings :
          /\ CURRENT_USER_BUILDING' = building_name
          /\ foreground' = [pc |-> "selected", building_name |-> building_name]
    /\ UNCHANGED <<LOADING_QUEUE, LOADING_IN_PROGRESS, CURRENTLY_LOADING,
                   building_cache, background, fetched>>
    /\ UNCHANGED <<runVars, invocation, frames>>

\* the cache is used, or the building is marked and its fetch starts
FgBegin ==
    /\ foreground.pc = "selected"
    /\ IF foreground.building_name \in building_cache
       THEN /\ foreground' = [foreground EXCEPT !.pc = "idle"]
            /\ UNCHANGED CURRENTLY_LOADING
       ELSE /\ foreground' = [foreground EXCEPT !.pc = "fetch"]
            /\ CURRENTLY_LOADING' = CURRENTLY_LOADING \cup {foreground.building_name}
    /\ UNCHANGED <<LOADING_QUEUE, LOADING_IN_PROGRESS, CURRENT_USER_BUILDING,
                   building_cache, background, fetched>>
    /\ UNCHANGED <<runVars, invocation, frames>>

\* load_building_data_from_s3 returns data, returns None or raises; the
\* marker is released on every path
FgFetchDone ==
    /\ foreground.pc = "fetch"
    /\ \E building_data \in {"data", "None", "Exception"} :
          building_cache' = IF building_data = "data"
                            THEN building_cache \cup {foreground.building_name}
                            ELSE building_cache
    /\ CURRENTLY_LOADING' = Release(CURRENTLY_LOADING, foreground.building_name)
    /\ foreground' = [foreground EXCEPT !.pc = "idle"]
    /\ UNCHANGED <<LOADING_QUEUE, LOADING_IN_PROGRESS, CURRENT_USER_BUILDING,
                   background, fetched>>
    /\ UNCHANGED <<runVars, invocation, frames>>

LoaderSpec ==
    InitLoader /\ [][Initialize \/ (\E t \in Workers : Worker(t))
                        \/ FgSelect \/ FgBegin \/ FgFetchDone]_vars

\* interval ticks keep firing and a callback that is executing goes on; every
\* fetch terminates
LoaderFairSpec ==
    /\ LoaderSpec
    /\ \A t \in Workers : WF_vars(Worker(t))
    /\ WF_vars(FgBegin \/ FgFetchDone)

-----------------------------------------------------------------------------
(* Properties of the preloaded callbacks *)

\* the invocations of process_background_loading between setting and
\* resetting LOADING_IN_PROGRESS
InProgress ==
    {t \in DOMAIN background :
        background[t].pc \in {"scan", "popcached", "pop", "mark", "fetch", "finally"}}

\* the buildings a callback that is executing has marked and not yet released
BeingLoaded ==
    {background[t].building_to_load : t \in {u \in DOMAIN background : background[u].pc = "fetch"}}
        \cup (IF foreground # <<>> /\ foreground.pc = "fetch"
              THEN {foreground.building_name} ELSE {})

\* C24  Single background worker: at any moment at most one invocation of
\* process_background_loading is between setting LOADING_IN_PROGRESS to True
\* and resetting it, so at most one background load is in progress.
SingleBackgroundWorker == Cardinality(InProgress) <= 1

\* C25  One building per tick: each invocation of process_background_loading
\* removes at most one entry from LOADING_QUEUE; the entry its loop selects is
\* the first queued building that is cached or the first that is neither
\* cached, nor the user's building, nor in CURRENTLY_LOADING; the entry it
\* removes is the entry selected, and a fetch starts only after that removal.
OneBuildingPerTick ==
    [][\A t \in DOMAIN background :
          LET w == background[t]
              idx == background'[t].idx_to_process
          IN  /\ w.pc = "scan" /\ background'[t].pc \in {"pop", "popcached"} =>
                    \/ /\ LOADING_QUEUE[idx] \in building_cache
                       /\ \A j \in 1..(idx - 1) : LOADING_QUEUE[j] \notin building_cache
                    \/ /\ LOADING_QUEUE[idx] \notin
                              building_cache \cup CURRENTLY_LOADING \cup {CURRENT_USER_BUILDING}
                       /\ \A j \in 1..(idx - 1) :
                              LOADING_QUEUE[j] \in
                                  building_cache \cup CURRENTLY_LOADING \cup {CURRENT_USER_BUILDING}
              /\ background'[t] # w /\ LOADING_QUEUE' # LOADING_QUEUE =>
                    /\ w.popped = 0
                    /\ LOADING_QUEUE' = Pop(LOADING_QUEUE, w.idx_to_process)
                    /\ LOADING_QUEUE[w.idx_to_process] = w.building_name
              /\ w.pc # "fetch" /\ background'[t].pc = "fetch" => w.popped = 1
      ]_vars

\* C26  No duplicate loading: a building is never being fetched by the
\* background loader while a foreground fetch of the same building is in
\* progress.
NoDuplicateLoading ==
    \A t \in DOMAIN background :
        ~ /\ background[t].pc = "fetch"
          /\ foreground.pc = "fetch"
          /\ background[t].building_to_load = foreground.building_name

QueueNoDuplicates ==
    \A i, j \in 1..Len(LOADING_QUEUE) : LOADING_QUEUE[i] = LOADING_QUEUE[j] => i = j

\* the queue holds both buildings after a second call of
\* initialize_background_loading that followed a background load
QueueNoDuplicatesWitness ==
    /\ fetched # <<>> /\ fetched.initialized = MaxInits
    /\ Len(LOADING_QUEUE) = Cardinality(Buildings)
    /\ building_cache # {}

\* C29  Background queue drains: every building in LOADING_QUEUE that is not
\* the user's building is eventually out of the queue, found cached or after a
\* load attempt, unless it becomes the user's building; and between two calls
\* of initialize_background_loading no building is loaded twice in background.
QueueDrains ==
    /\ [](\A b \in Buildings : fetched.background_loads[b] <= 1)
    /\ \A b \in Buildings :
          ((\E i \in 1..Len(LOADING_QUEUE) : LOADING_QUEUE[i] = b) /\ CURRENT_USER_BUILDING # b)
              ~> \/ CURRENT_USER_BUILDING = b
                 \/ /\ \A i \in 1..Len(LOADING_QUEUE) : LOADING_QUEUE[i] # b
                    /\ b \in building_cache \/ fetched.background_loads[b] = 1

-----------------------------------------------------------------------------
(* The what-if simulation of reduced minimum airflow *)

\* simulated_airflow_df: where tload is within the deadband of 50 and the
\* zone has a guideline, airflow above the guideline is set to the guideline
SimulatedAirflow(original_airflow_df, tload_df, guideline) ==
    DF(original_airflow_df.index, original_airflow_df.columns,
       [t \in original_airflow_df.index |-> [z \in original_airflow_df.columns |->
            LET a == original_airflow_df.val[t][z]
            IN  IF /\ t \in tload_df.index /\ z \in tload_df.columns
                   /\ Ge(tload_df.val[t][z], Num(-50)) /\ Ge(Num(50), tload_df.val[t][z])
                   /\ z \in DOMAIN guideline /\ ~IsNaN(guideline[z])
                   /\ Lt(guideline[z], a)
                THEN guideline[z] ELSE a]])

\* df_cooling_zonal_simulated: the zonal cooling times the ratio of simulated
\* to original airflow, both reindexed to the zonal table with fillna(0); 0
\* where the original airflow is 0
ScaledCooling(original_airflow_df, simulated_airflow_df, original_cooling_zonal_df) ==
    LET index == original_cooling_zonal_df.index
        columns == original_cooling_zonal_df.columns
        orig == FillNa0(Reindex(original_airflow_df, index, columns))
        sim == FillNa0(Reindex(simulated_airflow_df, index, columns))
    IN  DF(index, columns,
           [t \in index |-> [z \in columns |->
               IF orig.val[t][z] = Num(0) THEN Num(0)
               ELSE Mul(original_cooling_zonal_df.val[t][z],
                        Div(sim.val[t][z], orig.val[t][z]))]])

\* the early returns shared by the two simulations, then the two tables
Simulated(original_airflow_df, original_cooling_zonal_df, iat_df, hsp_df, tload_df, guideline) ==
    IF \E i \in 1..5 :
          IsNone(<<original_airflow_df, original_cooling_zonal_df, iat_df, hsp_df, tload_df>>[i])
    THEN None
    ELSE IF
       \/ \E i \in 1..5 :
             Empty(<<original_airflow_df, original_cooling_zonal_df, iat_df, hsp_df, tload_df>>[i])
       \/ DOMAIN guideline = {}
       \/ original_airflow_df.index \cap tload_df.index = {}
       \/ original_airflow_df.columns \cap tload_df.columns = {}
    THEN None
    ELSE LET simulated_airflow_df == SimulatedAirflow(original_airflow_df, tload_df, guideline)
         IN  [kind |-> "Simulation",
              simulated_airflow_df |-> simulated_airflow_df,
              df_cooling_zonal_simulated |->
                  ScaledCooling(original_airflow_df, simulated_airflow_df,
                                original_cooling_zonal_df)]

\* the inputs of a simulation after the allocation stage of
\* process_building_data: airflow that may lack the middle hour, zone loads
\* inside or outside the deadband, and guidelines per zone
InitSimulation ==
    /\ pc = "simulate" /\ called = {"allocation"} /\ binned = Pending /\ grouped = Pending
    /\ log = <<>> /\ top_wasteful = Pending /\ top_demanding = Pending
    /\ invocation = <<>> /\ frames = <<>> /\ LoaderIdle
    /\ csp = Pending
    /\ dat = Table(RankTimes, AHUs, [t \in RankTimes, c \in AHUs |-> 50])
    /\ iat = Table(RankTimes, Zones, [t \in RankTimes, c \in Zones |-> 60])
    /\ zmap = MapDefault
    /\ cooling = Table(RankTimes, {"Cooling"}, [t \in RankTimes, c \in {"Cooling"} |-> 12])
    /\ \E index \in {RankTimes, RankTimes \ {HourStep}}, a \in [Zones -> {0, 1, 3}] :
          airflow = Table(index, Zones, [t \in index, z \in Zones |-> a[z]])
    /\ \E h \in {58, 62} : hsp = Table(RankTimes, Zones, [t \in RankTimes, c \in Zones |-> h])
    /\ zonal = get_cooling_zonal_from_data(dat, iat, airflow, zmap, cooling)
    /\ IsFrame(zonal) /\ ~Empty(zonal)
    /\ \E l \in [Zones -> {0, 100}],
          guideline \in {[z \in Zones |-> Num(1)], [z \in Zones |-> Num(2)],
                         [z \in {"A"} |-> Num(1)],
                         [z \in Zones |-> IF z = "A" THEN NaN ELSE Num(1)]} :
          simulation = [tload_df |-> Table(RankTimes, Zones, [t \in RankTimes, z \in Zones |-> l[z]]),
                        ASHRAE_Guideline_CFM |-> guideline,
                        result |-> Pending, savings |-> Pending]

\* simulate_airflow_for_all_zones_savings: the savings are the zonal cooling
\* summed per zone less the simulated cooling summed per zone
SimulateAllZones ==
    /\ pc = "simulate"
    /\ LET r == Simulated(airflow, zonal, iat, hsp, simulation.tload_df,
                          simulation.ASHRAE_Guideline_CFM)
       IN  simulation' = [simulation EXCEPT
              !.result = r,
              !.savings = IF IsNone(r) THEN None
                          ELSE [z \in zonal.columns |->
                                  Sub(ColumnSum(zonal, z),
                                      ColumnSum(r.df_cooling_zonal_simulated, z))]]
    /\ pc' = "simulated" /\ called' = called \cup {"simulate_airflow_for_all_zones_savings"}
    /\ UNCHANGED <<dat, iat, airflow, zmap, cooling, hsp, csp, zonal, binned, grouped,
                   log, top_wasteful, top_demanding, invocation, frames, loaderVars>>

\* simulate_airflow_for_bin1_waste_savings: the savings are the bin-1 cooling
\* (iat < hsp, both reindexed to the zonal table and filled forward) summed
\* per zone, of the zonal table less that of the simulated table
SimulateBin1 ==
    /\ pc = "simulate"
    /\ LET r == Simulated(airflow, zonal, iat, hsp, simulation.tload_df,
                          simulation.ASHRAE_Guideline_CFM)
           iat_aligned == FFill(Reindex(iat, zonal.index, zonal.columns))
           hsp_aligned == FFill(Reindex(hsp, zonal.index, zonal.columns))
       IN  simulation' = [simulation EXCEPT
              !.result = r,
              !.savings = IF IsNone(r) THEN None
                          ELSE [z \in zonal.columns |->
                                  Sub(ColumnSum(Where(zonal, iat_aligned, hsp_aligned), z),
                                      ColumnSum(Where(r.df_cooling_zonal_simulated,
                                                      iat_aligned, hsp_aligned), z))]]
    /\ pc' = "simulated" /\ called' = called \cup {"simulate_airflow_for_bin1_waste_savings"}
    /\ UNCHANGED <<dat, iat, airflow, zmap, cooling, hsp, csp, zonal, binned, grouped,
                   log, top_wasteful, top_demanding, invocation, frames, loaderVars>>

SimulationSpec == InitSimulation /\ [][SimulateAllZones \/ SimulateBin1]_vars

\* C30  What-if savings come only from reduced airflow: at every zone and
\* timestep of the zonal table at which the simulation did not reduce the
\* zone's airflow the simulated zonal cooling equals the zonal cooling, a zone
\* whose airflow is never reduced has savings 0, and where airflow is reduced
\* from a to g the cooling is scaled by g/a.
WhatIfSavings ==
    pc = "simulated" /\ ~IsNone(simulation.result) =>
        LET sim == simulation.result
            reduced(t, z) == /\ t \in airflow.index /\ z \in airflow.columns
                             /\ sim.simulated_airflow_df.val[t][z] # airflow.val[t][z]
        IN  \A z \in zonal.columns :
               /\ \A t \in zonal.index :
                     sim.df_cooling_zonal_simulated.val[t][z] =
                        IF reduced(t, z)
                        THEN Mul(zonal.val[t][z],
                                 Div(simulation.ASHRAE_Guideline_CFM[z], airflow.val[t][z]))
                        ELSE zonal.val[t][z]
               /\ (\A t \in zonal.index : ~reduced(t, z)) => simulation.savings[z] = Num(0)

====
